---- MODULE Spec2Model ----
(***************************************************************************)
(* A model of mass-raytrace: the progressive accumulator and worker pool   *)
(* of src/main.rs (render thread, pre-render and main-pass workers, the    *)
(* display conversion thread and the event loop), and the intersectables   *)
(* of src/geom.rs and src/world.rs.                                        *)
(***************************************************************************)
EXTENDS Integers, Sequences, FiniteSets, TLC

(***************************************************************************)
(* Bounds of the model.                                                    *)
(***************************************************************************)
\* number of worker threads: cpus = max(1, num_cpus - 2), main.rs:157-158
Cpus == 2
\* image.height (rows); IMAGE_HEIGHT is 1080 in the program
Height == 2
\* image.width (columns); IMAGE_WIDTH is 1920 in the program
Width == 1
\* largest n of frame_limit = Some(n) that is explored
MaxLimit == 1
\* frames of the animation loop (TOTAL_FRAMES is 4,500,000 in the program)
TotalFrames == 2
\* the pending Update events the event queue distinguishes (more coalesce)
MaxPending == 2
\* releases of the backtick key (toggles of QUICK_PASS) that are explored
MaxKeys == 2

\* sample passes a frame may start: what frame_limit = Some(MaxLimit) needs,
\* and one more so that three buffers can be merged with frame_limit = None
MaxPasses == Cpus * MaxLimit + 1

Workers == 1..Cpus
NumPixels == Width * Height
PixelIds == 1..NumPixels

\* Option<u32>: None is <<>>, Some(n) is <<n>>
None == <<>>
Some(n) == <<n>>
NoOne == <<"nobody", 0>>

(***************************************************************************)
(* f32 arithmetic on non-negative whole numbers.  An f32 has a 24-bit      *)
(* significand: a sum is exact below 2^24 and is rounded to the nearest    *)
(* representable value (ties to even) above.                               *)
(***************************************************************************)
F32Mantissa == 16777216

RECURSIVE Ulp(_)
Ulp(n) == IF n < F32Mantissa THEN 1 ELSE 2 * Ulp(n \div 2)

RoundF32(n) ==
  LET u == Ulp(n)
      q == n \div u
      r == n % u
  IN  IF 2 * r < u THEN q * u
      ELSE IF 2 * r > u THEN (q + 1) * u
      ELSE IF q % 2 = 0 THEN q * u ELSE (q + 1) * u

F32Add(a, b) == RoundF32(a + b)

\* V3 += V3 (math/generic.rs implement_vector!: one f32 add per component)
V3Add(a, b) == <<F32Add(a[1], b[1]), F32Add(a[2], b[2]), F32Add(a[3], b[3])>>

V3Zero == <<0, 0, 0>>

(***************************************************************************)
(* Samples.  camera.trace returns (color, remaining depth); the worker     *)
(* stores (color, MAX_DEPTH - depth).  The colors are whole numbers, 2^24   *)
(* among them: an emitter as bright as that makes the f32 sums round.      *)
(***************************************************************************)
BrightColor == <<F32Mantissa, 0, 1>>
DimColor == <<1, 1, 0>>

DimSample == <<DimColor, 1>>
Samples == {<<BrightColor, 0>>, DimSample}
BlackSample == <<V3Zero, 0>>

\* ImageBuffer::new / Image::new: every pixel (V3::zero(), 0)
ZeroBuffer == [p \in PixelIds |-> BlackSample]

\* the step with the depth assigned instead of accumulated
MergePixelAssignsDepth(imagePx, bufPx) == <<V3Add(imagePx[1], bufPx[1]), bufPx[2]>>

\* one step of Image::merge's loop: *image_color += buf_color; *image_depth += buf_depth
MergePixel(imagePx, bufPx) == <<V3Add(imagePx[1], bufPx[1]), imagePx[2] + bufPx[2]>>

\* the whole of Image::merge on a pixel vector
MergeBuffer(imagePixels, buffer) ==
  [p \in PixelIds |-> MergePixel(imagePixels[p], buffer[p])]

RECURSIVE MergeAll(_, _)
MergeAll(imagePixels, buffers) ==
  IF buffers = <<>> THEN imagePixels
  ELSE MergeAll(MergeBuffer(imagePixels, Head(buffers)), Tail(buffers))

\* ImageBuffer::set's index: position.1 * width + position.0 (1-based here)
PixelIndex(x, y) == y * Width + x + 1

(***************************************************************************)
(* State.                                                                  *)
(***************************************************************************)
VARIABLES
  quick_pass,         \* static QUICK_PASS: AtomicBool
  pixel_update_flag,  \* static PIXEL_UPDATE_FLAG: AtomicBool
  display_mode,       \* run's local display_mode
  control_flow,       \* the event loop's ControlFlow
  events,             \* user events sent to the event loop and not yet handled
  texture,            \* run's texture: the snapshot last handed to the display
  pixels,             \* Image.pixels: (sample_count, [(color_sum, depth_sum)])
  pixels_lock,        \* owner of the mutex around Image.pixels
  albedo,             \* Image.albedo: Option<FloatBuffer>
  albedo_lock,
  normal,             \* Image.normal: Option<FloatBuffer>
  normal_lock,
  scene,              \* the scene worker() renders
  frame,              \* worker's frame counter
  frame_limit,        \* worker's samples_per_frame, render's frame_limit
  rpc,                \* where the render thread (worker, render) is
  ri,                 \* its loop index (spawn, join, clear)
  albedo_buf,         \* render's albedo_buf, shared with the pre-render threads
  normal_buf,
  row,                \* render's row: AtomicU32
  pre,                \* the pre-render threads
  wk,                 \* the main-pass threads ("render:i")
  conv,               \* the display threads spawned on Update
  merged,             \* history: the buffers merged since the last Image::clear
  passes,             \* history: sample passes started in this render call
  call,               \* history: facts about the current render call
  keys,               \* history: backtick releases so far
  objects,            \* the objects added to the World, World.objects
  world,              \* the World once build_bvh returned, or what became of it
  query,              \* a ray and its range: intersect's arguments
  answer,             \* what intersect returned for the query
  released,           \* history: the key last released and what it did
  tr,                 \* a call of Camera::trace and its nested calls
  mat,                \* materials built and the operations called on them
  obj,                \* ObjLoader::load: its locals and the builder's calls
  tex                 \* surfaces and the cube map, and the calls made on them

vars == <<quick_pass, pixel_update_flag, display_mode, control_flow, events,
          texture, pixels, pixels_lock, albedo, albedo_lock, normal,
          normal_lock, scene, frame, frame_limit, rpc, ri, albedo_buf,
          normal_buf, row, pre, wk, conv, merged, passes, call, keys, objects,
          world, query, answer, released, tr, mat, obj, tex>>

uiVars == <<quick_pass, display_mode, keys, released>>
unitVars == <<tr, mat, obj, tex>>
geoVars == <<objects, world, query, answer, unitVars>>
pipeVars == <<quick_pass, pixel_update_flag, display_mode, control_flow,
              events, texture, pixels, pixels_lock, albedo, albedo_lock,
              normal, normal_lock, scene, frame, frame_limit, rpc, ri,
              albedo_buf, normal_buf, row, pre, wk, conv, merged, passes,
              call, keys, released>>
imageVars == <<pixels, pixels_lock, albedo, albedo_lock, normal, normal_lock>>
renderVars == <<scene, frame, frame_limit, rpc, ri>>
preVars == <<albedo_buf, normal_buf, row, pre>>
convVars == <<pixel_update_flag, conv, texture>>

\* number of display threads that may be alive at once: the threads a run
\* starts with
MaxConv == 1
ConvThreads == DOMAIN conv
DisplayThreads == 1..MaxConv
RacingThreads == 1..(MaxConv + 1)

Rows == 0..(Height - 1)

\* frame_limit: Option<u32>
FrameLimits == {None} \cup {Some(n) : n \in 0..MaxLimit}

\* the scenes: "black" is a World with SolidBackground(0,0,0) and no objects,
\* "dim" a uniformly lit one, "mixed" one with a bright emitter in view
Scenes == {"black", "dim", "mixed"}

\* thread identities for the mutexes
RenderId == <<"worker", 0>>
WorkerId(w) == <<"render", w>>
ConvId(c) == <<"display", c>>

(***************************************************************************)
(* The event queue (EventLoopProxy::send_event).  Update carries nothing,  *)
(* so only the number pending is kept, and more than MaxPending coalesce.  *)
(***************************************************************************)
NoEvents == [update |-> 0, redraw |-> <<>>, fatal |-> FALSE, complete |-> FALSE]

SendUpdate(ev) ==
  [ev EXCEPT !.update = IF @ < MaxPending THEN @ + 1 ELSE @]

SendRedraw(ev, frameBytes) ==
  [ev EXCEPT !.redraw = IF Len(@) < MaxPending THEN Append(@, frameBytes)
                        ELSE Append(Tail(@), frameBytes)]

\* the process is alive: event_loop.run has not been told to exit and no
\* thread has overflowed its stack
Running == control_flow # "Exit" /\ rpc # "stack_overflow"

LockIgnored(lock) == TRUE

\* Mutex::lock: the caller goes on only when nobody holds the mutex
LockFree(lock) == lock = NoOne

\* a reader that does not wait for the mutex
ReaderEntersUnlocked(lock) == TRUE

\* Image::to_rgb_bytes, main.rs:639: self.pixels.lock()
ReaderMayEnter(lock) == lock = NoOne

\* Image::clear, main.rs:755: pixels.0 = 0
ClearedCount == 0

\* main.rs:249: while frame_limit.is_none() || frame_limit != Some(0)
LoopContinues(limit) == limit = None \/ limit # Some(0)

\* a pass that stops one pixel short of the image
PassBufferSkipsLast(old, samples) ==
  [p \in PixelIds |-> IF p = NumPixels THEN old[p] ELSE samples[p]]

\* main.rs:251-263: both loops run over the whole image, so buffer.set
\* overwrites every pixel of the old buffer with the pass's samples
PassBuffer(old, samples) ==
  [p \in PixelIds |->
     IF \E y \in 0..(Height - 1), x \in 0..(Width - 1) : PixelIndex(x, y) = p
       THEN samples[p] ELSE old[p]]

\* a merge that leaves the count as it was
MergedCountKept(n) == n

\* Image::merge, main.rs:635: pixels.0 += 1
MergedCount(n) == n + 1

\* a pass that leaves the limit as it was
DecLimitKept(limit) == limit

\* main.rs:278: frame_limit.as_mut().map(|n| *n -= 1)
DecLimit(limit) == IF limit = None THEN None ELSE Some(limit[1] - 1)

\* a render that goes on to the main pass whatever the flag
ShortCircuitsNever(flag) == FALSE

\* main.rs:222: if QUICK_PASS.load(..) { send Update; return; }
ShortCircuits(flag) == flag

\* a worker that never looks at the flag
StopsAtPollNever(flag) == FALSE

\* main.rs:280-282: if QUICK_PASS.load(..) { return; }
StopsAtPoll(flag) == flag

(***************************************************************************)
(* Geometry, geom.rs and world.rs.  Coordinates are integers and an f32    *)
(* that comes out of a division is kept exactly, as <<n, d>> with d >= 0:  *)
(* the fraction n/d in lowest terms, an infinity when d = 0 and NaN when   *)
(* n = d = 0.  The inputs are chosen so that every f32 operation on the    *)
(* way is exact.                                                           *)
(***************************************************************************)
RECURSIVE Gcd(_, _)
Gcd(a, b) == IF b = 0 THEN a ELSE Gcd(b, a % b)

Abs(n) == IF n < 0 THEN -n ELSE n
Sign(n) == IF n < 0 THEN -1 ELSE IF n > 0 THEN 1 ELSE 0

\* the f32 division n / d of two integers: x/0 is an infinity, 0/0 is NaN
Frac(n, d) ==
  IF d = 0 THEN <<Sign(n), 0>>
  ELSE LET g == Gcd(Abs(n), Abs(d))
       IN  <<(Sign(d) * n) \div g, Abs(d) \div g>>

F32Infinity == <<1, 0>>
F32NegInfinity == <<-1, 0>>
F32NaN == <<0, 0>>
FromInt(n) == <<n, 1>>
IsNaN(x) == x = F32NaN
IsFinite(x) == x[2] # 0

\* x < y on f32: false when either is NaN
Lt(x, y) ==
  /\ ~IsNaN(x)
  /\ ~IsNaN(y)
  /\ IF x[2] = 0 /\ y[2] = 0 THEN x[1] < y[1]
     ELSE x[1] * y[2] < y[1] * x[2]

\* f32::min and f32::max: a NaN operand is ignored
FMin(x, y) == IF IsNaN(x) THEN y ELSE IF IsNaN(y) THEN x
              ELSE IF Lt(y, x) THEN y ELSE x
FMax(x, y) == IF IsNaN(x) THEN y ELSE IF IsNaN(y) THEN x
              ELSE IF Lt(x, y) THEN y ELSE x

\* sums, differences and quotients of finite values
FAdd(x, y) == Frac(x[1] * y[2] + y[1] * x[2], x[2] * y[2])
FSub(x, y) == Frac(x[1] * y[2] - y[1] * x[2], x[2] * y[2])
FDiv(x, y) == Frac(x[1] * y[2], x[2] * y[1])
FHalf(x) == Frac(x[1], 2 * x[2])

\* the square root of a discriminant; the inputs keep it a perfect square
Sqrt(n) == CHOOSE r \in 0..n : r * r = n

\* V3 with integer components, math.rs
Dot(a, b) == a[1] * b[1] + a[2] * b[2] + a[3] * b[3]
Cross(a, b) == <<a[2] * b[3] - a[3] * b[2],
                 a[3] * b[1] - a[1] * b[3],
                 a[1] * b[2] - a[2] * b[1]>>
VSub(a, b) == <<a[1] - b[1], a[2] - b[2], a[3] - b[3]>>
VNeg(a) == <<-a[1], -a[2], -a[3]>>
VScale(a, k) == <<a[1] * k, a[2] * k, a[3] * k>>
VMul(a, b) == <<a[1] * b[1], a[2] * b[2], a[3] * b[3]>>
LengthSquared(a) == Dot(a, a)

\* V3::unit keeps the direction: the model keeps a normal as the shortest
\* integer vector of its direction (a zero vector has none, and stays)
Unit(a) ==
  LET g == Gcd(Gcd(Abs(a[1]), Abs(a[2])), Abs(a[3]))
  IN  IF g = 0 THEN a ELSE <<a[1] \div g, a[2] \div g, a[3] \div g>>

\* V3 with f32 components
FVec(a) == <<FromInt(a[1]), FromInt(a[2]), FromInt(a[3])>>
FVMin(a, b) == <<FMin(a[1], b[1]), FMin(a[2], b[2]), FMin(a[3], b[3])>>
FVMax(a, b) == <<FMax(a[1], b[1]), FMax(a[2], b[2]), FMax(a[3], b[3])>>

MakeRay(origin, direction) == [origin |-> origin, direction |-> direction]

\* set_face_normal that keeps the outward normal on a back face
SetFaceNormalUnflipped(hit, ray, outward_normal) ==
  [hit EXCEPT !.front_face = Dot(ray.direction, outward_normal) < 0,
              !.normal = outward_normal]

\* Hit::set_face_normal, geom.rs:17-24
SetFaceNormal(hit, ray, outward_normal) ==
  LET front == Dot(ray.direction, outward_normal) < 0
  IN  [hit EXCEPT !.front_face = front,
                  !.normal = IF front THEN outward_normal
                             ELSE VNeg(outward_normal)]

\* a Hit: its t, normal and front_face, and the primitive it lies on (which
\* stands for the material reference); the point is ray.at(t)
MakeHit(t, n, prim) ==
  [t |-> t, normal |-> n, front_face |-> FALSE, prim |-> prim]

(***************************************************************************)
(* BoundingBox, geom.rs:207-254: minimum and maximum are f32 vectors.      *)
(***************************************************************************)
BoundingBoxNew(minimum, maximum) == [minimum |-> minimum, maximum |-> maximum]

\* one axis of BoundingBox::hit: (minimum - origin) / direction and
\* (maximum - origin) / direction, ordered and cut into [lo, hi]
SlabRange(box, ray, axis, lo, hi) ==
  LET o == FromInt(ray.origin[axis])
      d == ray.direction[axis]
      to_min == FSub(box.minimum[axis], o)
      to_max == FSub(box.maximum[axis], o)
      v_min == Frac(to_min[1], to_min[2] * d)
      v_max == Frac(to_max[1], to_max[2] * d)
  IN  <<FMax(FMin(v_min, v_max), lo), FMin(FMax(v_min, v_max), hi)>>

\* BoundingBox::hit, geom.rs:218-247
BoundingBoxHit(box, ray, t_min, t_max) ==
  LET x == SlabRange(box, ray, 1, t_min, t_max)
      y == SlabRange(box, ray, 2, x[1], x[2])
      z == SlabRange(box, ray, 3, y[1], y[2])
  IN  /\ ~Lt(x[2], x[1])
      /\ ~Lt(y[2], y[1])
      /\ ~Lt(z[2], z[1])

\* a join that keeps the receiver's box
BoundingBoxJoinKeepsSelf(a, b) == a

\* BoundingBox::join, geom.rs:249-254
BoundingBoxJoin(a, b) ==
  BoundingBoxNew(FVMin(a.minimum, b.minimum), FVMax(a.maximum, b.maximum))

(***************************************************************************)
(* The intersectables.  An object is a record with its kind and fields.    *)
(***************************************************************************)
\* Sphere::new, geom.rs:47-53
SphereNew(center, radius) ==
  [kind |-> "Sphere", center |-> center, radius |-> radius]

\* Triangle::new, geom.rs:447-464: the three vertex normals are the face's
TriangleNew(vertex_a, vertex_b, vertex_c) ==
  [kind |-> "Triangle", vertex_a |-> vertex_a, vertex_b |-> vertex_b,
   vertex_c |-> vertex_c,
   normal |-> Unit(Cross(VSub(vertex_b, vertex_a), VSub(vertex_c, vertex_a)))]

\* Volume::new, geom.rs:596-602
VolumeNew(target) == [kind |-> "Volume", target |-> target]

\* World::new and World::add, world.rs:101-115
WorldNew(objs) == [kind |-> "World", objects |-> objs]

\* what a build that did not return leaves: the process is gone
StackOverflow == [kind |-> "StackOverflow"]
Panicked == [kind |-> "Panicked"]
IsObject(o) == o.kind \notin {"StackOverflow", "Panicked"}

\* Intersect::bounding_box of every kind, as an Option
RECURSIVE BoundingBoxOf(_)
RECURSIVE WorldBox(_, _, _)
WorldBox(objs, i, group_box) ==
  IF i > Len(objs) THEN group_box
  ELSE LET bb == BoundingBoxOf(objs[i])
       IN  IF bb = None THEN None
           ELSE WorldBox(objs, i + 1,
                         IF group_box = None THEN bb
                         ELSE Some(BoundingBoxJoin(group_box[1], bb[1])))

BoundingBoxOf(o) ==
  CASE o.kind = "Sphere" ->
         \* geom.rs:95-100
         Some(BoundingBoxNew(
           FVec(<<o.center[1] - Abs(o.radius), o.center[2] - Abs(o.radius),
                  o.center[3] - Abs(o.radius)>>),
           FVec(<<o.center[1] + Abs(o.radius), o.center[2] + Abs(o.radius),
                  o.center[3] + Abs(o.radius)>>)))
    [] o.kind = "Triangle" ->
         \* geom.rs:581-586
         Some(BoundingBoxNew(
           FVMin(FVMin(FVec(o.vertex_a), FVec(o.vertex_b)), FVec(o.vertex_c)),
           FVMax(FVMax(FVec(o.vertex_a), FVec(o.vertex_b)), FVec(o.vertex_c))))
    [] o.kind = "BvhNode" -> Some(o.bounding_box)            \* geom.rs:202-204
    [] o.kind = "Model" -> Some(o.triangles.bounding_box)    \* geom.rs:330-332
    [] o.kind = "Instance" -> Some(o.bounding_box)           \* geom.rs:422-424
    [] o.kind = "Volume" -> BoundingBoxOf(o.target)          \* geom.rs:651-653
    [] o.kind = "World" ->
         \* world.rs:146-165
         IF Len(o.objects) = 0 THEN None ELSE WorldBox(o.objects, 1, None)

(***************************************************************************)
(* BvhNode::new, geom.rs:110-183.                                          *)
(***************************************************************************)
Axes == 1..3

\* compare_x, compare_y, compare_z for the axis drawn, geom.rs:164-183
Compare(axis, left, right) ==
  Lt(BoundingBoxOf(left)[1].minimum[axis], BoundingBoxOf(right)[1].minimum[axis])

\* compare_* reach unreachable!() on an item without a bounding box
ComparePanics(items) ==
  /\ Len(items) > 1
  /\ \E i \in 1..Len(items) : BoundingBoxOf(items[i]) = None

\* where the insertion sort behind sort_by leaves item x in a sorted run:
\* it moves left past every item it is less than
RECURSIVE InsertTail(_, _, _)
InsertTail(axis, run, x) ==
  IF run # <<>> /\ Compare(axis, x, run[Len(run)])
  THEN Append(InsertTail(axis, SubSeq(run, 1, Len(run) - 1), x), run[Len(run)])
  ELSE Append(run, x)

\* items.sort_by(..), geom.rs:131-137
RECURSIVE SortBy(_, _)
SortBy(axis, items) ==
  IF items = <<>> THEN <<>>
  ELSE InsertTail(axis, SortBy(axis, SubSeq(items, 1, Len(items) - 1)),
                  items[Len(items)])

MakeNodeUnchecked(left, right) ==
  LET lb == IF left = None THEN None ELSE BoundingBoxOf(left[1])
      rb == IF right = None THEN None ELSE BoundingBoxOf(right[1])
  IN  [kind |-> "BvhNode", left |-> left, right |-> right,
       bounding_box |-> IF lb = None /\ rb = None
                        THEN BoundingBoxNew(FVec(<<0, 0, 0>>), FVec(<<0, 0, 0>>))
                        ELSE IF lb = None THEN rb[1]
                        ELSE IF rb = None THEN lb[1]
                        ELSE BoundingBoxJoin(lb[1], rb[1])]

\* geom.rs:146-160: the node around its children, or the panic of the match
MakeNode(left, right) ==
  LET lb == IF left = None THEN None ELSE BoundingBoxOf(left[1])
      rb == IF right = None THEN None ELSE BoundingBoxOf(right[1])
  IN  IF lb = None /\ rb = None THEN Panicked
      ELSE [kind |-> "BvhNode", left |-> left, right |-> right,
            bounding_box |-> IF lb = None THEN rb[1]
                             ELSE IF rb = None THEN lb[1]
                             ELSE BoundingBoxJoin(lb[1], rb[1])]

\* the node of two built halves; a half that did not return ends the build
JoinHalves(left, right) ==
  IF ~IsObject(left) THEN left
  ELSE IF ~IsObject(right) THEN right
  ELSE MakeNode(Some(left), Some(right))

\* the recursion depth the stack holds
MaxStack == 4

\* BvhNode::new at recursion depth `depth`: the set of outcomes over the
\* axes fastrand can draw
RECURSIVE BvhNodeNew(_, _)
BvhNodeNew(items, depth) ==
  IF depth > MaxStack THEN {StackOverflow}
  ELSE IF Len(items) = 1 THEN {MakeNode(Some(items[1]), None)}
  ELSE IF ComparePanics(items) THEN {Panicked}
  ELSE IF Len(items) = 2 THEN
    {IF Compare(axis, items[2], items[1])
     THEN MakeNode(Some(items[2]), Some(items[1]))
     ELSE MakeNode(Some(items[1]), Some(items[2])) : axis \in Axes}
  ELSE
    UNION {LET sorted == SortBy(axis, items)
               mid == Len(sorted) \div 2
           IN  {JoinHalves(l, r) :
                  l \in BvhNodeNew(SubSeq(sorted, 1, mid), depth + 1),
                  r \in BvhNodeNew(SubSeq(sorted, mid + 1, Len(sorted)),
                                   depth + 1)} : axis \in Axes}

\* World::build_bvh, world.rs:117-122
BuildBvh(w) ==
  {IF IsObject(n) THEN WorldNew(<<n>>) ELSE n : n \in BvhNodeNew(w.objects, 0)}

\* Model::new, geom.rs:281-292
ModelNew(triangles) ==
  {IF IsObject(n) THEN [kind |-> "Model", triangles |-> n] ELSE n :
     n \in BvhNodeNew(triangles, 0)}

(***************************************************************************)
(* Intersect::intersect.  A result is an Option<Hit>.                      *)
(***************************************************************************)
OutOfRange(t, t_min, t_max) == Lt(t, t_min) \/ Lt(t_max, t)

\* Sphere::intersect, geom.rs:56-93
SphereIntersect(s, ray, t_min, t_max) ==
  LET offset_center == VSub(ray.origin, s.center)
      a == LengthSquared(ray.direction)
      half_b == Dot(offset_center, ray.direction)
      c == LengthSquared(offset_center) - s.radius * s.radius
      discriminant == half_b * half_b - a * c
  IN  IF discriminant < 0 THEN None
      ELSE
        LET sqrt_d == Sqrt(discriminant)
            near == Frac(-half_b - sqrt_d, a)
            far == Frac(-half_b + sqrt_d, a)
            root == IF OutOfRange(near, t_min, t_max) THEN far ELSE near
            \* (point - center) / radius, by its direction
            outward == Unit(VScale(<<offset_center[1] * root[2] + ray.direction[1] * root[1],
                                    offset_center[2] * root[2] + ray.direction[2] * root[1],
                                    offset_center[3] * root[2] + ray.direction[3] * root[1]>>,
                                  Sign(s.radius)))
        IN  IF OutOfRange(root, t_min, t_max) THEN None
            ELSE Some(SetFaceNormal(MakeHit(root, outward, s), ray, outward))

\* Triangle::intersect, geom.rs:497-579, of a triangle without uvs
TriangleIntersect(tri, ray, t_min, t_max) ==
  LET ab == VSub(tri.vertex_b, tri.vertex_a)
      ac == VSub(tri.vertex_c, tri.vertex_a)
      p_vec == Cross(ray.direction, ac)
      det == Dot(ab, p_vec)
      t_vec == VSub(ray.origin, tri.vertex_a)
      u == Frac(Dot(t_vec, p_vec), det)
      q_vec == Cross(t_vec, ab)
      v == Frac(Dot(ray.direction, q_vec), det)
      t == Frac(Dot(ac, q_vec), det)
  IN  IF det = 0 THEN None
      ELSE IF Lt(u, FromInt(0)) \/ Lt(FromInt(1), u) THEN None
      ELSE IF Lt(v, FromInt(0)) \/ Lt(FromInt(1), FAdd(v, u)) THEN None
      ELSE IF Lt(t, t_min) \/ Lt(t_max, t) THEN None
      ELSE Some(SetFaceNormal(MakeHit(t, tri.normal, tri), ray, tri.normal))

\* M4::rotate_x, rotate_y and rotate_z are not among the sources; a rotation
\* by zero turns, the only one the model uses, leaves a vector as it is
Rotate(rotation, v) == v

\* Instance::new, geom.rs:344-390, for a scale of 1/inv_scale per axis
InstanceNew(triangles, translation, rotation, inv_scale) ==
  LET Corner(i) ==
        <<IF i % 2 = 0 THEN triangles.bounding_box.maximum[1]
                       ELSE triangles.bounding_box.minimum[1],
          IF (i \div 2) % 2 = 0 THEN triangles.bounding_box.maximum[2]
                                ELSE triangles.bounding_box.minimum[2],
          IF (i \div 4) % 2 = 0 THEN triangles.bounding_box.maximum[3]
                                ELSE triangles.bounding_box.minimum[3]>>
      \* transform.transform_point of a corner
      Moved(c) == [k \in 1..3 |->
                     FAdd(FDiv(Rotate(rotation, c)[k], FromInt(inv_scale[k])),
                          FromInt(translation[k]))]
      Fold[i \in 0..8] ==
        IF i = 0 THEN <<<<F32Infinity, F32Infinity, F32Infinity>>,
                        <<F32NegInfinity, F32NegInfinity, F32NegInfinity>>>>
        ELSE <<FVMin(Fold[i - 1][1], Moved(Corner(i - 1))),
               FVMax(Fold[i - 1][2], Moved(Corner(i - 1)))>>
  IN  [kind |-> "Instance", triangles |-> triangles,
       translation |-> translation, rotation |-> rotation,
       inv_scale |-> inv_scale,
       bounding_box |-> BoundingBoxNew(Fold[8][1], Fold[8][2])]

\* Model::instance, geom.rs:312-314
ModelInstance(model, translation, rotation, inv_scale) ==
  InstanceNew(model.triangles, translation, rotation, inv_scale)

\* inv_transform.transform_point and transform_vector, geom.rs:367
InvTransformPoint(inst, p) ==
  VMul(inst.inv_scale, Rotate(VNeg(inst.rotation), VSub(p, inst.translation)))
InvTransformVector(inst, v) ==
  VMul(inst.inv_scale, Rotate(VNeg(inst.rotation), v))

\* transform.transform_vector(normal).unit(), geom.rs:412: each component is
\* divided by its inv_scale; Unit keeps the direction
TransformNormal(inst, n) ==
  Unit(Rotate(inst.rotation,
              <<n[1] * inst.inv_scale[2] * inst.inv_scale[3],
                n[2] * inst.inv_scale[1] * inst.inv_scale[3],
                n[3] * inst.inv_scale[1] * inst.inv_scale[2]>>))

\* the step hit_enter.t + 0.0001 of geom.rs:613
VolumeStep == Frac(1, 10000)

RECURSIVE Intersect(_, _, _, _, _)

\* World::intersect, world.rs:131-144, from object i on
RECURSIVE WorldScan(_, _, _, _, _, _, _)
WorldScan(objs, i, ray, t_min, closest_so_far, found_hit, rnd) ==
  IF i > Len(objs) THEN found_hit
  ELSE LET hit == Intersect(objs[i], ray, t_min, closest_so_far, rnd)
       IN  IF hit # None
           THEN WorldScan(objs, i + 1, ray, t_min, hit[1].t, hit, rnd)
           ELSE WorldScan(objs, i + 1, ray, t_min, closest_so_far,
                          found_hit, rnd)

\* BvhNode::intersect, geom.rs:185-200
BvhNodeIntersect(node, ray, t_min, t_max, rnd) ==
  IF BoundingBoxHit(node.bounding_box, ray, t_min, t_max) THEN
    LET left_hit == IF node.left = None THEN None
                    ELSE Intersect(node.left[1], ray, t_min, t_max, rnd)
        tightened == IF left_hit = None THEN t_max ELSE left_hit[1].t
        right_hit == IF node.right = None THEN None
                     ELSE Intersect(node.right[1], ray, t_min, tightened, rnd)
    IN  IF right_hit # None THEN right_hit ELSE left_hit
  ELSE None

\* Instance::intersect, geom.rs:403-420
InstanceIntersect(inst, ray, t_min, t_max, rnd) ==
  LET local == MakeRay(InvTransformPoint(inst, ray.origin),
                       InvTransformVector(inst, ray.direction))
      hit == BvhNodeIntersect(inst.triangles, local, t_min, t_max, rnd)
  IN  IF hit = None THEN None
      ELSE Some([hit[1] EXCEPT !.normal = TransformNormal(inst, @)])

\* Volume::intersect, geom.rs:605-649; rnd says where f32::rand() puts
\* hit_distance: "inside" the target, halfway through it, or "beyond" it
VolumeIntersect(vol, ray, t_min, t_max, rnd) ==
  LET hit_enter == Intersect(vol.target, ray, F32NegInfinity, F32Infinity, rnd)
      hit_exit == Intersect(vol.target, ray, FAdd(hit_enter[1].t, VolumeStep),
                            F32Infinity, rnd)
      enter_t == IF Lt(hit_enter[1].t, t_min) THEN t_min ELSE hit_enter[1].t
      exit_t == IF Lt(t_max, hit_exit[1].t) THEN t_max ELSE hit_exit[1].t
      from_t == IF Lt(enter_t, FromInt(0)) THEN FromInt(0) ELSE enter_t
      t == FAdd(from_t, FHalf(FSub(exit_t, from_t)))
  IN  IF hit_enter = None THEN None
      ELSE IF hit_exit = None THEN None
      ELSE IF ~Lt(enter_t, exit_t) THEN None
      ELSE IF rnd = "beyond" THEN None
      ELSE Some([MakeHit(t, <<1, 0, 0>>, vol) EXCEPT !.front_face = TRUE])

Intersect(o, ray, t_min, t_max, rnd) ==
  CASE o.kind = "Sphere" -> SphereIntersect(o, ray, t_min, t_max)
    [] o.kind = "Triangle" -> TriangleIntersect(o, ray, t_min, t_max)
    [] o.kind = "BvhNode" -> BvhNodeIntersect(o, ray, t_min, t_max, rnd)
    \* Model::intersect, geom.rs:317-328
    [] o.kind = "Model" -> BvhNodeIntersect(o.triangles, ray, t_min, t_max, rnd)
    [] o.kind = "Instance" -> InstanceIntersect(o, ray, t_min, t_max, rnd)
    [] o.kind = "Volume" -> VolumeIntersect(o, ray, t_min, t_max, rnd)
    [] o.kind = "World" ->
         WorldScan(o.objects, 1, ray, t_min, t_max, None, rnd)

(***************************************************************************)
(* The render thread: worker() and render(), main.rs:79-293.               *)
(***************************************************************************)
\* claimed and wrote are history: the values the thread got from the row
\* counter and the rows it set, until the threads are joined
UnspawnedPre ==
  [w \in Workers |-> [pc |-> "unspawned", y |-> 0, claimed |-> <<>>,
                      wrote |-> <<>>]]
UnspawnedWk ==
  [w \in Workers |->
     [pc |-> "unspawned", idx |-> 0, buffer |-> ZeroBuffer, limit |-> None,
      merges |-> 0, updates |-> 0, sinceSet |-> 0]]

\* FloatBuffer::new: all 0.0; one entry per row stands for the row's pixels
ZeroFloatBuffer == [y \in Rows |-> 0]

\* Option<FloatBuffer>
NoBuffer == [some |-> FALSE, rows |-> ZeroFloatBuffer]
SomeBuffer(buf) == [some |-> TRUE, rows |-> buf]

\* a Redraw's frame, known by the mode and sample count it was made from;
\* a display thread's snapshot: what to_rgb_bytes read and returned
NoFrame == [mode |-> "None", count |-> 0]
NoSnap == [mode |-> "None", count |-> 0, px |-> ZeroBuffer, bytes |-> <<>>]

\* what camera.albedo_normal yields for a row of the frame's world
AuxValue(f, y) == f + 1

\* the samples camera.trace can return for the scene: the black scene has no
\* objects and SolidBackground(0,0,0), so every path is (black, MAX_DEPTH)
TraceSamples(sc) ==
  CASE sc = "black" -> {BlackSample}
    [] sc = "dim" -> {DimSample}
    [] OTHER -> Samples

NewCall == [accAtEntry |-> pixels, updates |-> 0, spawned |-> FALSE,
            quickSeen |-> quick_pass, viaQuick |-> FALSE, atCheck |-> "unread"]

\* the objects scene.generate adds to the World: none in the black scene
SceneObjects(sc) ==
  CASE sc = "black" -> <<>>
    [] sc = "dim" -> <<SphereNew(<<0, 0, 0>>, 1)>>
    [] OTHER -> <<SphereNew(<<0, 0, 0>>, 1), SphereNew(<<1, 1, 1>>, 1)>>

\* worker: scene.generate, world.build_bvh, then the call of render
\* (main.rs:102-116); render's set-up (main.rs:155-164).  A stack overflow
\* in build_bvh aborts the process
Generate ==
  /\ Running
  /\ rpc = "generate"
  /\ frame < TotalFrames
  /\ objects' = SceneObjects(scene)
  /\ \E built \in BuildBvh(WorldNew(objects')) :
       /\ world' = built
       /\ IF IsObject(built)
             THEN /\ rpc' = "pre_spawn"
                  /\ ri' = 0
                  /\ albedo_buf' = ZeroFloatBuffer
                  /\ normal_buf' = ZeroFloatBuffer
                  /\ row' = 0
                  /\ pre' = UnspawnedPre
                  /\ wk' = UnspawnedWk
                  /\ passes' = 0
                  /\ call' = NewCall
             ELSE /\ rpc' = "stack_overflow"
                  /\ UNCHANGED <<ri, preVars, wk, passes, call>>
  /\ UNCHANGED <<query, answer, unitVars, uiVars, control_flow, events, imageVars,
                 scene, frame, frame_limit, convVars, merged>>

\* main.rs:165-210: spawn pre-render thread ri
PreSpawn ==
  /\ Running
  /\ rpc = "pre_spawn"
  /\ pre' = [pre EXCEPT ![ri + 1].pc = "fetch"]
  /\ IF ri + 1 = Cpus THEN rpc' = "pre_join" /\ ri' = 0
                      ELSE rpc' = rpc /\ ri' = ri + 1
  /\ UNCHANGED <<geoVars, uiVars, control_flow, events, imageVars, scene, frame,
                 frame_limit, albedo_buf, normal_buf, row, wk, convVars,
                 merged, passes, call>>

\* a join that returns while the thread is still running
PreJoinWithoutWaiting ==
  /\ Running
  /\ rpc = "pre_join"
  /\ IF pre[ri + 1].pc = "panicked" THEN rpc' = "panicked" /\ ri' = ri
     ELSE IF ri + 1 = Cpus THEN rpc' = "set_albedo" /\ ri' = 0
     ELSE rpc' = rpc /\ ri' = ri + 1
  /\ UNCHANGED <<geoVars, uiVars, control_flow, events, imageVars, scene, frame,
                 frame_limit, preVars, wk, convVars, merged, passes, call>>

\* main.rs:212-214: handle.join().unwrap() on pre-render thread ri; the
\* unwrap panics when the thread has panicked
PreJoin ==
  /\ Running
  /\ rpc = "pre_join"
  /\ pre[ri + 1].pc \in {"done", "panicked"}
  /\ IF pre[ri + 1].pc = "panicked" THEN rpc' = "panicked" /\ ri' = ri
     ELSE IF ri + 1 = Cpus THEN rpc' = "set_albedo" /\ ri' = 0
     ELSE rpc' = rpc /\ ri' = ri + 1
  /\ pre' = IF pre[ri + 1].pc = "done" /\ ri + 1 = Cpus
            THEN [w \in Workers |->
                    [pre[w] EXCEPT !.claimed = <<>>, !.wrote = <<>>]]
            ELSE pre
  /\ UNCHANGED <<geoVars, uiVars, control_flow, events, imageVars, scene, frame,
                 frame_limit, albedo_buf, normal_buf, row, wk, convVars,
                 merged, passes, call>>

\* Arc::strong_count of albedo_buf and of normal_buf: the Arc of the render
\* thread and the clone moved into each pre-render thread (main.rs:176-177),
\* which is dropped when the thread's closure ends or unwinds
StrongCount ==
  1 + Cardinality({w \in Workers :
                     pre[w].pc \notin {"unspawned", "done", "panicked"}})

\* Arc::try_unwrap(..) is Ok for the only reference (main.rs:216-217)
TryUnwrap(count) == count = 1

\* main.rs:216-217,219: both buffers are unwrapped, which panics unless each
\* Arc is the last one, and the albedo buffer is installed (Image::set_albedo,
\* main.rs:615-617)
SetAlbedo ==
  /\ Running
  /\ rpc = "set_albedo"
  /\ albedo_lock = NoOne
  /\ IF TryUnwrap(StrongCount)
        THEN albedo' = SomeBuffer(albedo_buf) /\ rpc' = "set_normal"
        ELSE albedo' = albedo /\ rpc' = "panicked"
  /\ UNCHANGED <<geoVars, uiVars, control_flow, events, pixels, pixels_lock,
                 albedo_lock, normal, normal_lock, scene, frame, frame_limit,
                 ri, preVars, wk, convVars, merged, passes, call>>

\* main.rs:220 and Image::set_normal, main.rs:619-621: the normal buffer
\* unwrapped at main.rs:217 is installed
SetNormal ==
  /\ Running
  /\ rpc = "set_normal"
  /\ normal_lock = NoOne
  /\ normal' = SomeBuffer(normal_buf)
  /\ rpc' = "check_quick"
  /\ UNCHANGED <<geoVars, uiVars, control_flow, events, pixels, pixels_lock, albedo,
                 albedo_lock, normal_lock, scene, frame, frame_limit, ri,
                 preVars, wk, convVars, merged, passes, call>>

\* main.rs:222: QUICK_PASS.load
CheckQuick ==
  /\ Running
  /\ rpc = "check_quick"
  /\ rpc' = IF ShortCircuits(quick_pass) THEN "quick_send" ELSE "clear_lock"
  /\ call' = [call EXCEPT !.atCheck = IF quick_pass THEN "set" ELSE "clear"]
  /\ UNCHANGED <<geoVars, uiVars, control_flow, events, imageVars, scene, frame,
                 frame_limit, ri, preVars, wk, convVars, merged, passes>>

\* main.rs:223-228: send Update and return
QuickSend ==
  /\ Running
  /\ rpc = "quick_send"
  /\ events' = SendUpdate(events)
  /\ call' = [call EXCEPT !.updates = @ + 1, !.viaQuick = TRUE]
  /\ rpc' = "returned"
  /\ UNCHANGED <<geoVars, uiVars, control_flow, imageVars, scene, frame, frame_limit,
                 ri, preVars, wk, convVars, merged, passes>>

\* Image::clear, main.rs:747-748: lock the pixels
ClearLock ==
  /\ Running
  /\ rpc = "clear_lock"
  /\ LockFree(pixels_lock)
  /\ pixels_lock' = RenderId
  /\ rpc' = "clear_px"
  /\ ri' = 0
  /\ UNCHANGED <<geoVars, uiVars, control_flow, events, pixels, albedo, albedo_lock,
                 normal, normal_lock, scene, frame, frame_limit, preVars, wk,
                 convVars, merged, passes, call>>

\* Image::clear, main.rs:750-753: one pixel of the loop
ClearPx ==
  /\ Running
  /\ rpc = "clear_px"
  /\ pixels' = [pixels EXCEPT !.px[ri + 1] = BlackSample]
  /\ IF ri + 1 = NumPixels THEN rpc' = "clear_finish" /\ ri' = 0
                           ELSE rpc' = rpc /\ ri' = ri + 1
  /\ UNCHANGED <<geoVars, uiVars, control_flow, events, pixels_lock, albedo,
                 albedo_lock, normal, normal_lock, scene, frame, frame_limit,
                 preVars, wk, convVars, merged, passes, call>>

\* Image::clear, main.rs:755-756: pixels.0 = 0 and the guard is dropped
ClearFinish ==
  /\ Running
  /\ rpc = "clear_finish"
  /\ pixels' = [pixels EXCEPT !.count = ClearedCount]
  /\ pixels_lock' = NoOne
  /\ merged' = <<>>
  /\ rpc' = "main_spawn"
  /\ ri' = 0
  /\ UNCHANGED <<geoVars, uiVars, control_flow, events, albedo, albedo_lock, normal,
                 normal_lock, scene, frame, frame_limit, preVars, wk,
                 convVars, passes, call>>

\* main.rs:233-288: spawn main-pass thread ri with a fresh buffer; its first
\* step, the test of the while loop (main.rs:249), is local to it
MainSpawn ==
  /\ Running
  /\ rpc = "main_spawn"
  /\ wk' = [wk EXCEPT ![ri + 1] =
               [@ EXCEPT !.pc = IF LoopContinues(frame_limit)
                                  THEN "pixel" ELSE "done",
                         !.idx = 0,
                         !.buffer = ZeroBuffer,
                         !.limit = frame_limit]]
  /\ call' = [call EXCEPT !.spawned = TRUE]
  /\ IF ri + 1 = Cpus THEN rpc' = "main_join" /\ ri' = 0
                      ELSE rpc' = rpc /\ ri' = ri + 1
  /\ UNCHANGED <<geoVars, uiVars, control_flow, events, imageVars, scene, frame,
                 frame_limit, preVars, convVars, merged, passes>>

\* main.rs:290-292: handle.join().unwrap() on main-pass thread ri; the
\* unwrap panics when the thread has panicked
MainJoin ==
  /\ Running
  /\ rpc = "main_join"
  /\ wk[ri + 1].pc \in {"done", "panicked"}
  /\ IF wk[ri + 1].pc = "panicked" THEN rpc' = "panicked" /\ ri' = ri
     ELSE IF ri + 1 = Cpus THEN rpc' = "returned" /\ ri' = 0
     ELSE rpc' = rpc /\ ri' = ri + 1
  /\ UNCHANGED <<geoVars, uiVars, control_flow, events, imageVars, scene, frame,
                 frame_limit, preVars, wk, convVars, merged, passes, call>>

\* main.rs:118: render has returned; frame += 1 and the loop goes on
NextFrame ==
  /\ Running
  /\ rpc = "returned"
  /\ frame' = frame + 1
  /\ rpc' = "generate"
  /\ UNCHANGED <<geoVars, uiVars, control_flow, events, imageVars, scene, frame_limit,
                 ri, preVars, wk, convVars, merged, passes, call>>

\* main.rs:141-145: the loop is over; send Complete
Complete ==
  /\ Running
  /\ rpc = "generate"
  /\ frame = TotalFrames
  /\ events' = [events EXCEPT !.complete = TRUE]
  /\ rpc' = "exited"
  /\ UNCHANGED <<geoVars, uiVars, control_flow, imageVars, scene, frame, frame_limit,
                 ri, preVars, wk, convVars, merged, passes, call>>
(***************************************************************************)
(* A pre-render thread, main.rs:181-206.                                   *)
(***************************************************************************)
\* main.rs:182,204 and the test of main.rs:183: y = row.fetch_add(1); y < height
FetchAddLost(counter) == counter

\* what row.fetch_add(1, Acquire) leaves in the counter, main.rs:182, 204
FetchAdd(counter) == counter + 1

PreFetch(w) ==
  /\ Running
  /\ pre[w].pc = "fetch"
  /\ row' = FetchAdd(row)
  /\ pre' = [pre EXCEPT ![w].pc = IF row < Height THEN "albedo_row" ELSE "done",
                        ![w].y = row,
                        ![w].claimed = Append(@, row)]
  /\ UNCHANGED <<geoVars, uiVars, control_flow, events, imageVars, renderVars,
                 albedo_buf, normal_buf, wk, convVars, merged, passes, call>>

\* main.rs:186-199: the row is computed and albedo_buf.lock().set_row(y, ..)
PreAlbedoRow(w) ==
  /\ Running
  /\ pre[w].pc = "albedo_row"
  /\ albedo_buf' = [albedo_buf EXCEPT ![pre[w].y] = AuxValue(frame, pre[w].y)]
  /\ pre' = [pre EXCEPT ![w].pc = "normal_row",
                        ![w].wrote = Append(@, <<"albedo", pre[w].y>>)]
  /\ UNCHANGED <<geoVars, uiVars, control_flow, events, imageVars, renderVars,
                 normal_buf, row, wk, convVars, merged, passes, call>>

\* main.rs:200-203: normal_buf.lock().set_row(y, ..)
PreNormalRow(w) ==
  /\ Running
  /\ pre[w].pc = "normal_row"
  /\ normal_buf' = [normal_buf EXCEPT ![pre[w].y] = AuxValue(frame, pre[w].y)]
  /\ pre' = [pre EXCEPT ![w].pc = "fetch",
                        ![w].wrote = Append(@, <<"normal", pre[w].y>>)]
  /\ UNCHANGED <<geoVars, uiVars, control_flow, events, imageVars, renderVars,
                 albedo_buf, row, wk, convVars, merged, passes, call>>

(***************************************************************************)
(* A main-pass thread, main.rs:248-284.                                    *)
(***************************************************************************)
\* main.rs:250-265: one sample pass over the thread's own buffer: for every
\* pixel, trace and buffer.set((x, y), color, MAX_DEPTH - depth)
TracePass(w) ==
  /\ Running
  /\ wk[w].pc = "pixel"
  /\ passes < MaxPasses \/ quick_pass
  /\ passes' = passes + 1
  /\ \E buf \in [PixelIds -> TraceSamples(scene)] :
       wk' = [wk EXCEPT ![w].buffer = PassBuffer(wk[w].buffer, buf),
                        ![w].idx = 0,
                        ![w].pc = "merge_lock"]
  /\ UNCHANGED <<geoVars, uiVars, control_flow, events, imageVars, renderVars,
                 preVars, convVars, merged, call>>

\* Image::merge, main.rs:628: lock the pixels
MergeLock(w) ==
  /\ Running
  /\ wk[w].pc = "merge_lock"
  /\ LockFree(pixels_lock)
  /\ pixels_lock' = WorkerId(w)
  /\ wk' = [wk EXCEPT ![w].pc = "merge_px", ![w].idx = 0]
  /\ UNCHANGED <<geoVars, uiVars, control_flow, events, pixels, albedo, albedo_lock,
                 normal, normal_lock, renderVars, preVars, convVars, merged,
                 passes, call>>

\* Image::merge, main.rs:629-634: one pixel of the loop
MergePx(w) ==
  /\ Running
  /\ wk[w].pc = "merge_px"
  /\ pixels' = [pixels EXCEPT !.px[wk[w].idx + 1] =
                   MergePixel(@, wk[w].buffer[wk[w].idx + 1])]
  /\ wk' = [wk EXCEPT ![w].idx = IF @ + 1 = NumPixels THEN 0 ELSE @ + 1,
                       ![w].pc = IF wk[w].idx + 1 = NumPixels
                                 THEN "merge_finish" ELSE "merge_px"]
  /\ UNCHANGED <<geoVars, uiVars, control_flow, events, pixels_lock, albedo,
                 albedo_lock, normal, normal_lock, renderVars, preVars,
                 convVars, merged, passes, call>>

\* Image::merge, main.rs:635-636: pixels.0 += 1 and the guard is dropped
MergeFinish(w) ==
  /\ Running
  /\ wk[w].pc = "merge_finish"
  /\ pixels' = [pixels EXCEPT !.count = MergedCount(@)]
  /\ pixels_lock' = NoOne
  /\ merged' = Append(merged, wk[w].buffer)
  /\ wk' = [wk EXCEPT ![w].pc = "notify",
                       ![w].merges = @ + 1,
                       ![w].sinceSet = IF quick_pass THEN @ + 1 ELSE @]
  /\ UNCHANGED <<geoVars, uiVars, control_flow, events, albedo, albedo_lock, normal,
                 normal_lock, renderVars, preVars, convVars, passes, call>>

\* main.rs:272-276: send Update
Notify(w) ==
  /\ Running
  /\ wk[w].pc = "notify"
  /\ events' = SendUpdate(events)
  /\ wk' = [wk EXCEPT ![w].pc = "poll", ![w].updates = @ + 1]
  /\ UNCHANGED <<geoVars, uiVars, control_flow, imageVars, renderVars, preVars,
                 convVars, merged, passes, call>>

\* main.rs:278-283 and the loop test of main.rs:249: frame_limit is
\* decremented, QUICK_PASS is loaded, and the loop goes on or ends
Poll(w) ==
  /\ Running
  /\ wk[w].pc = "poll"
  /\ LET limit == DecLimit(wk[w].limit)
     IN  wk' = [wk EXCEPT ![w].limit = limit,
                          ![w].pc = IF StopsAtPoll(quick_pass) THEN "done"
                                    ELSE IF LoopContinues(limit) THEN "pixel"
                                    ELSE "done"]
  /\ UNCHANGED <<geoVars, uiVars, control_flow, events, imageVars, renderVars,
                 preVars, convVars, merged, passes, call>>

(***************************************************************************)
(* Panics.  Tracing can panic (texture.rs:281, unimplemented! for the      *)
(* Mirror wrap mode; material.rs:185), and so can scene generation (the    *)
(* unwraps of the asset loaders).                                          *)
(***************************************************************************)
\* camera.trace panics in a main-pass thread, main.rs:259
TracePanic(w) ==
  /\ Running
  /\ wk[w].pc = "pixel"
  /\ wk' = [wk EXCEPT ![w].pc = "panicked"]
  /\ UNCHANGED <<geoVars, uiVars, control_flow, events, imageVars, renderVars,
                 preVars, convVars, merged, passes, call>>

\* camera.albedo_normal panics in a pre-render thread, main.rs:190
PrePanic(w) ==
  /\ Running
  /\ pre[w].pc = "albedo_row"
  /\ pre' = [pre EXCEPT ![w].pc = "panicked"]
  /\ UNCHANGED <<geoVars, uiVars, control_flow, events, imageVars, renderVars,
                 albedo_buf, normal_buf, row, wk, convVars, merged, passes,
                 call>>

\* a pass of main.rs:249-283 beyond the MaxPasses whose sums the model
\* keeps: the worker traces, merges, notifies and polls as before
SpinPass(w) ==
  /\ Running
  /\ wk[w].pc = "pixel"
  /\ passes = MaxPasses
  /\ wk[w].limit = None
  /\ ~quick_pass
  /\ events' = SendUpdate(events)
  /\ UNCHANGED <<geoVars, uiVars, control_flow, imageVars, renderVars,
                 preVars, wk, convVars, merged, passes, call>>

\* scene.generate panics in the render thread, main.rs:107
GeneratePanic ==
  /\ Running
  /\ rpc = "generate"
  /\ frame < TotalFrames
  /\ rpc' = "panicked"
  /\ UNCHANGED <<geoVars, uiVars, control_flow, events, imageVars, scene, frame,
                 frame_limit, ri, preVars, wk, convVars, merged, passes, call>>

\* main.rs:64-72: catch_unwind returns Err and FatalError is sent
CatchUnwind ==
  /\ Running
  /\ rpc = "panicked"
  /\ events' = [events EXCEPT !.fatal = TRUE]
  /\ rpc' = "exited"
  /\ UNCHANGED <<geoVars, uiVars, control_flow, imageVars, scene, frame, frame_limit,
                 ri, preVars, wk, convVars, merged, passes, call>>

(***************************************************************************)
(* Image::to_rgb_bytes, main.rs:638-720.                                   *)
(***************************************************************************)
\* x.powf(1.0 / 2.2) on [0, 1] in steps of a byte: entry b is the least x,
\* in units of 2^-20, with (x.powf(1/2.2) * 255.0) as u8 >= b
GammaScale == 1048576
GammaThreshold ==
<<
  6, 25, 60, 113, 184, 275, 385, 517, 670, 844,
  1041, 1261, 1503, 1769, 2059, 2373, 2712, 3075, 3464, 3877,
  4317, 4782, 5273, 5790, 6335, 6905, 7503, 8128, 8780, 9460,
  10168, 10903, 11667, 12459, 13279, 14128, 15006, 15913, 16849, 17814,
  18808, 19832, 20886, 21969, 23083, 24226, 25400, 26604, 27839, 29104,
  30400, 31727, 33085, 34473, 35893, 37345, 38828, 40342, 41888, 43466,
  45076, 46717, 48391, 50097, 51835, 53606, 55409, 57245, 59113, 61014,
  62948, 64915, 66915, 68948, 71015, 73115, 75248, 77415, 79615, 81849,
  84116, 86418, 88754, 91123, 93527, 95964, 98436, 100943, 103484, 106059,
  108669, 111313, 113992, 116706, 119455, 122239, 125058, 127912, 130801, 133725,
  136685, 139680, 142710, 145776, 148878, 152015, 155188, 158396, 161641, 164921,
  168238, 171590, 174979, 178404, 181865, 185362, 188895, 192466, 196072, 199715,
  203395, 207111, 210865, 214655, 218481, 222345, 226246, 230184, 234158, 238170,
  242220, 246306, 250430, 254591, 258789, 263026, 267299, 271610, 275959, 280346,
  284770, 289232, 293732, 298270, 302846, 307460, 312112, 316802, 321530, 326297,
  331102, 335945, 340826, 345746, 350705, 355702, 360738, 365812, 370925, 376076,
  381267, 386496, 391764, 397071, 402417, 407802, 413227, 418690, 424192, 429734,
  435315, 440935, 446595, 452293, 458032, 463810, 469627, 475484, 481381, 487317,
  493293, 499309, 505364, 511459, 517595, 523770, 529985, 536240, 542535, 548870,
  555246, 561661, 568117, 574613, 581150, 587726, 594344, 601001, 607699, 614438,
  621217, 628036, 634897, 641798, 648740, 655722, 662745, 669809, 676914, 684060,
  691247, 698475, 705744, 713054, 720405, 727797, 735230, 742705, 750220, 757777,
  765376, 773016, 780697, 788420, 796184, 803989, 811837, 819725, 827656, 835628,
  843642, 851697, 859795, 867934, 876115, 884338, 892603, 900909, 909258, 917649,
  926082, 934556, 943074, 951633, 960234, 968878, 977564, 986292, 995062, 1003875,
  1012731, 1021628, 1030569, 1039551, 1048576 >>

\* main.rs:641 and 718: ((scale * f_c).powf(1.0 / 2.2).min(1.0).max(0.0)
\* * 255.0) as u8 with scale = 1.0 / count, for count > 0
Component(sum, count) ==
  IF sum >= count THEN 255
  ELSE Cardinality({b \in 1..255 : GammaThreshold[b] * count <= sum * GammaScale})

SeqMax(f) == CHOOSE m \in {f[p][2] : p \in PixelIds} :
               \A p \in PixelIds : f[p][2] <= m

\* main.rs:640: let scale = 1.0 / pixels.0 as f32, the first statement
\* after the lock, in every mode
Scale(count) == FDiv(FromInt(1), FromInt(count))

\* the three bytes without the arm for an empty accumulator: scale * f_c is
\* inf * 0.0 = NaN, which min(1.0) turns into 1.0
PixelBytesUnguarded(mode, count, px, p) ==
  IF mode = "Depth" /\ count # 0 THEN
    LET maxDepth == IF SeqMax(px) > 1 THEN SeqMax(px) ELSE 1
        d == (255 * px[p][2]) \div maxDepth
    IN  <<d, d, d>>
  ELSE <<Component(px[p][1][1], count), Component(px[p][1][2], count),
         Component(px[p][1][3], count)>>

\* the three bytes of pixel p
PixelBytes(mode, count, px, p) ==
  CASE mode \in {"Default", "Denoise", "Depth"} /\ count = 0 -> <<0, 0, 0>>
    [] mode = "Depth" ->
         LET maxDepth == IF SeqMax(px) > 1 THEN SeqMax(px) ELSE 1
             d == (255 * px[p][2]) \div maxDepth
         IN  <<d, d, d>>
    [] OTHER ->
         <<Component(px[p][1][1], count), Component(px[p][1][2], count),
           Component(px[p][1][3], count)>>

\* a FloatBuffer channel as a byte: Albedo p.min(1).max(0).powf(1/2.2),
\* Normal (p + 1) / 2, both then (p * 255.0) as u8
AuxByte(mode, v) ==
  IF mode = "Albedo" THEN Component(v, 1)
  ELSE IF v >= 1 THEN 255 ELSE 127

AuxBytes(mode, buf, p) ==
  IF ~buf.some THEN <<0, 0, 0>>
  ELSE LET v == buf.rows[(p - 1) \div Width]
       IN  <<AuxByte(mode, v), AuxByte(mode, v), AuxByte(mode, v)>>

RECURSIVE Flatten(_)
Flatten(ss) == IF ss = <<>> THEN <<>> ELSE Head(ss) \o Flatten(Tail(ss))

ToRgbBytes(mode, count, px, alb, nrm) ==
  Flatten([p \in PixelIds |->
             CASE mode = "Albedo" -> AuxBytes(mode, alb, p)
               [] mode = "Normal" -> AuxBytes(mode, nrm, p)
               [] OTHER -> PixelBytes(mode, count, px, p)])

(***************************************************************************)
(* A display thread, spawned by the event loop on Update, main.rs:360-377. *)
(***************************************************************************)
IdleConv == [pc |-> "idle", mode |-> "Default", snap |-> NoSnap]

\* Event::UserEvent(Update): a thread is spawned with the display mode of
\* that moment (main.rs:360-363)
HandleUpdate ==
  /\ Running
  /\ events.update > 0
  /\ \E c \in ConvThreads :
       /\ conv[c].pc = "idle"
       /\ \A d \in ConvThreads : d < c => conv[d].pc # "idle"
       /\ conv' = [conv EXCEPT ![c] = [pc |-> "cas", mode |-> display_mode,
                                       snap |-> NoSnap]]
  /\ events' = [events EXCEPT !.update = @ - 1]
  /\ UNCHANGED <<geoVars, uiVars, control_flow, imageVars, renderVars, preVars, wk,
                 pixel_update_flag, texture, merged, passes, call>>

\* the same with every modelled display thread busy in a conversion: the
\* new thread finds PIXEL_UPDATE_FLAG set, converts nothing and ends
HandleUpdateLost ==
  /\ Running
  /\ events.update > 0
  /\ \A c \in ConvThreads : conv[c].pc \notin {"idle", "cas"}
  /\ pixel_update_flag
  /\ events' = [events EXCEPT !.update = @ - 1]
  /\ UNCHANGED <<geoVars, uiVars, control_flow, imageVars, renderVars, preVars, wk,
                 convVars, merged, passes, call>>

\* a compare_exchange that succeeds whatever the flag holds
ConvCasBlind(c) ==
  /\ Running
  /\ conv[c].pc = "cas"
  /\ conv' = [conv EXCEPT ![c].pc = "lock"]
  /\ pixel_update_flag' = TRUE
  /\ UNCHANGED <<geoVars, uiVars, control_flow, events, imageVars, renderVars,
                 preVars, wk, texture, merged, passes, call>>

\* main.rs:364-369: PIXEL_UPDATE_FLAG.compare_exchange(false, true)
ConvCas(c) ==
  /\ Running
  /\ conv[c].pc = "cas"
  /\ IF pixel_update_flag
        THEN conv' = [conv EXCEPT ![c] = IdleConv] /\ UNCHANGED pixel_update_flag
        ELSE conv' = [conv EXCEPT ![c].pc = "lock"] /\ pixel_update_flag' = TRUE
  /\ UNCHANGED <<geoVars, uiVars, control_flow, events, imageVars, renderVars,
                 preVars, wk, texture, merged, passes, call>>

\* Image::to_rgb_bytes, main.rs:639: lock the pixels
ToRgbLock(c) ==
  /\ Running
  /\ conv[c].pc = "lock"
  /\ ReaderMayEnter(pixels_lock)
  /\ pixels_lock' = ConvId(c)
  /\ conv' = [conv EXCEPT ![c].pc = "locked"]
  /\ UNCHANGED <<geoVars, uiVars, control_flow, events, pixels, albedo, albedo_lock,
                 normal, normal_lock, renderVars, preVars, wk,
                 pixel_update_flag, texture, merged, passes, call>>

\* main.rs:683 and 699: the Albedo and Normal modes lock their buffer
ToRgbAuxLock(c) ==
  /\ Running
  /\ conv[c].pc = "locked"
  /\ \/ /\ conv[c].mode = "Albedo"
        /\ LockFree(albedo_lock)
        /\ albedo_lock' = ConvId(c)
        /\ UNCHANGED normal_lock
     \/ /\ conv[c].mode = "Normal"
        /\ LockFree(normal_lock)
        /\ normal_lock' = ConvId(c)
        /\ UNCHANGED albedo_lock
  /\ conv' = [conv EXCEPT ![c].pc = "aux_locked"]
  /\ UNCHANGED <<geoVars, uiVars, control_flow, events, pixels, pixels_lock, albedo,
                 normal, renderVars, preVars, wk, pixel_update_flag, texture,
                 merged, passes, call>>

\* Image::denoise in a build with the denoise feature, main.rs:679 and
\* 722-724: reached in mode Denoise once a sample is merged, it locks the
\* albedo under the pixels guard
DenoiseAlbedoLock(c) ==
  /\ Running
  /\ conv[c].pc = "locked"
  /\ conv[c].mode = "Denoise"
  /\ pixels.count # 0
  /\ LockFree(albedo_lock)
  /\ albedo_lock' = ConvId(c)
  /\ conv' = [conv EXCEPT ![c].pc = "denoise_albedo"]
  /\ UNCHANGED <<geoVars, uiVars, control_flow, events, pixels, pixels_lock, albedo,
                 normal, normal_lock, renderVars, preVars, wk,
                 pixel_update_flag, texture, merged, passes, call>>

\* main.rs:725: and then the normal, under both guards
DenoiseNormalLock(c) ==
  /\ Running
  /\ conv[c].pc = "denoise_albedo"
  /\ LockFree(normal_lock)
  /\ normal_lock' = ConvId(c)
  /\ conv' = [conv EXCEPT ![c].pc = "aux_locked"]
  /\ UNCHANGED <<geoVars, uiVars, control_flow, events, pixels, pixels_lock, albedo,
                 albedo_lock, normal, renderVars, preVars, wk,
                 pixel_update_flag, texture, merged, passes, call>>

\* a conversion that returns with its guards alive
ToRgbReturnKeepsGuards(c) ==
  /\ Running
  /\ \/ conv[c].pc = "locked" /\ conv[c].mode \notin {"Albedo", "Normal"}
     \/ conv[c].pc = "aux_locked"
  /\ conv' = [conv EXCEPT ![c].pc = "send",
                          ![c].snap =
                             [mode |-> conv[c].mode,
                              count |-> pixels.count,
                              px |-> pixels.px,
                              bytes |-> ToRgbBytes(conv[c].mode, pixels.count,
                                                   pixels.px, albedo, normal)]]
  /\ UNCHANGED <<geoVars, uiVars, control_flow, events, imageVars,
                 renderVars, preVars, wk, pixel_update_flag, texture, merged,
                 passes, call>>

\* main.rs:640-720: the bytes are computed and every guard is dropped
ToRgbReturn(c) ==
  /\ Running
  /\ \/ conv[c].pc = "locked" /\ conv[c].mode \notin {"Albedo", "Normal"}
     \/ conv[c].pc = "aux_locked"
  /\ conv' = [conv EXCEPT ![c].pc = "send",
                          ![c].snap =
                             [mode |-> conv[c].mode,
                              count |-> pixels.count,
                              px |-> pixels.px,
                              bytes |-> ToRgbBytes(conv[c].mode, pixels.count,
                                                   pixels.px, albedo, normal)]]
  /\ pixels_lock' = IF pixels_lock = ConvId(c) THEN NoOne ELSE pixels_lock
  /\ albedo_lock' = IF albedo_lock = ConvId(c) THEN NoOne ELSE albedo_lock
  /\ normal_lock' = IF normal_lock = ConvId(c) THEN NoOne ELSE normal_lock
  /\ UNCHANGED <<geoVars, uiVars, control_flow, events, pixels, albedo, normal,
                 renderVars, preVars, wk, pixel_update_flag, texture, merged,
                 passes, call>>

\* main.rs:371-373: send Redraw(image_bytes)
ConvSend(c) ==
  /\ Running
  /\ conv[c].pc = "send"
  /\ events' = SendRedraw(events, [mode |-> conv[c].snap.mode,
                                   count |-> conv[c].snap.count])
  /\ conv' = [conv EXCEPT ![c].pc = "reset", ![c].snap = NoSnap]
  /\ UNCHANGED <<geoVars, uiVars, control_flow, imageVars, renderVars, preVars, wk,
                 pixel_update_flag, texture, merged, passes, call>>

\* main.rs:374: PIXEL_UPDATE_FLAG.store(false)
ConvReset(c) ==
  /\ Running
  /\ conv[c].pc = "reset"
  /\ pixel_update_flag' = FALSE
  /\ conv' = [conv EXCEPT ![c] = IdleConv]
  /\ UNCHANGED <<geoVars, uiVars, control_flow, events, imageVars, renderVars,
                 preVars, wk, texture, merged, passes, call>>

(***************************************************************************)
(* The event loop, main.rs:330-489.                                        *)
(***************************************************************************)
\* Event::UserEvent(Redraw(frame)), main.rs:378-387
HandleRedraw ==
  /\ Running
  /\ events.redraw # <<>>
  /\ texture' = Head(events.redraw)
  /\ events' = [events EXCEPT !.redraw = Tail(@)]
  /\ UNCHANGED <<geoVars, uiVars, control_flow, imageVars, renderVars, preVars, wk,
                 pixel_update_flag, conv, merged, passes, call>>

\* Event::UserEvent(FatalError), main.rs:388-391
HandleFatalError ==
  /\ Running
  /\ events.fatal
  /\ control_flow' = "Exit"
  /\ events' = [events EXCEPT !.fatal = FALSE]
  /\ UNCHANGED <<geoVars, uiVars, imageVars, renderVars, preVars, wk, convVars,
                 merged, passes, call>>

\* Event::UserEvent(Complete), main.rs:392
HandleComplete ==
  /\ Running
  /\ events.complete
  /\ events' = [events EXCEPT !.complete = FALSE]
  /\ UNCHANGED <<geoVars, uiVars, control_flow, imageVars, renderVars, preVars, wk,
                 convVars, merged, passes, call>>

\* no key has been released yet
NoKey == [key |-> "None", prev |-> "None", initial |-> "Default",
          flag |-> FALSE, flag0 |-> FALSE, sent |-> FALSE]

NumberKeys == {"Key1", "Key2", "Key3", "Key4", "Key5"}

\* the arm of `match key` for a number key, main.rs:427-431
KeyMode(key) ==
  CASE key = "Key1" -> "Default"
    [] key = "Key2" -> "Denoise"
    [] key = "Key3" -> "Depth"
    [] key = "Key4" -> "Albedo"
    [] key = "Key5" -> "Normal"

SendsAlways(mode, initial_display_mode) == TRUE

\* if display_mode != initial_display_mode, main.rs:443
SendsUpdate(mode, initial_display_mode) == mode # initial_display_mode

FlagSet(flag) == TRUE

\* what QUICK_PASS.fetch_xor(true, Relaxed) leaves in the flag, main.rs:433
FetchXorTrue(flag) == flag # TRUE

\* what the handler of a released key leaves in the history
Release(key, sent) ==
  [key |-> key, prev |-> released.key, initial |-> display_mode,
   flag |-> quick_pass, flag0 |-> released.flag, sent |-> sent]

\* the backtick key is released, main.rs:432-447: QUICK_PASS.fetch_xor(true)
KeyGrave ==
  /\ Running
  /\ keys < MaxKeys
  /\ keys' = keys + 1
  /\ quick_pass' = FetchXorTrue(quick_pass)
  /\ display_mode' = IF ~quick_pass THEN "Albedo" ELSE "Default"
  /\ events' = IF SendsUpdate(display_mode', display_mode)
                THEN SendUpdate(events) ELSE events
  /\ released' = Release("Grave", SendsUpdate(display_mode', display_mode))
  /\ wk' = [w \in Workers |-> [wk[w] EXCEPT !.sinceSet = 0]]
  /\ call' = [call EXCEPT !.quickSeen = @ \/ quick_pass']
  /\ UNCHANGED <<geoVars, control_flow, imageVars, renderVars, preVars, convVars,
                 merged, passes>>

\* a number key is released, main.rs:411-447
KeyNumber(key) ==
  /\ Running
  /\ keys < MaxKeys
  /\ keys' = keys + 1
  /\ display_mode' = KeyMode(key)
  /\ events' = IF SendsUpdate(display_mode', display_mode)
                THEN SendUpdate(events) ELSE events
  /\ released' = Release(key, SendsUpdate(display_mode', display_mode))
  /\ UNCHANGED <<geoVars, quick_pass, control_flow, imageVars, renderVars,
                 preVars, wk, convVars, merged, passes, call>>

(***************************************************************************)
(* Camera::trace, world.rs:65-79, over a scene given by what intersect,    *)
(* emit, scatter and background return to it.  Every nested call is a      *)
(* frame of the stack; a frame keeps what its caller still has to apply.   *)
(***************************************************************************)
\* the depth the pixel loop hands to trace (MAX_DEPTH, main.rs:35, is 50)
MaxDepth == 3
Rays == {1, 2}

\* Background::background(ray): a colour that depends on the ray
Background(ray) == <<ray, 1, ray + 1>>

\* what Hit::emit returns: the material's light, or zero (geom.rs:30-32)
Emissions == {V3Zero, <<2, 0, 1>>}
Attenuations == {<<1, 1, 1>>, <<2, 1, 0>>}

NoResult == <<>>
IdleTrace == [pc |-> "idle", ray0 |-> 1, depth0 |-> 0, ray |-> 1, depth |-> 0,
              stack |-> <<>>, path |-> <<>>, hits |-> 0, result |-> NoResult,
              recorded |-> 0]

ChildDepthKept(depth) == depth

\* the depth of the nested call, world.rs:71: depth - 1
ChildDepth(depth) == depth - 1

CombineEmitFirst(color, attenuation, emitted) ==
  VMul(V3Add(color, emitted), attenuation)

\* world.rs:72: color * scatter.attenuation + emitted
Combine(color, attenuation, emitted) ==
  V3Add(VMul(color, attenuation), emitted)

\* main.rs:257-261: the pixel loop calls camera.trace(&world, ray, depth)
TraceCall(ray, depth) ==
  /\ tr.pc = "idle"
  /\ tr' = [IdleTrace EXCEPT !.pc = "enter", !.ray0 = ray, !.depth0 = depth,
                             !.ray = ray, !.depth = depth]
  /\ UNCHANGED <<objects, world, query, answer, mat, obj, tex, pipeVars>>

\* world.rs:66-67: depth == 0
TraceBlack ==
  /\ tr.pc = "enter"
  /\ tr.depth = 0
  /\ tr' = [tr EXCEPT !.pc = "return", !.result = <<V3Zero, tr.depth>>]
  /\ UNCHANGED <<objects, world, query, answer, mat, obj, tex, pipeVars>>

\* world.rs:68, 77-78: scene.intersect returns None
TraceMiss ==
  /\ tr.pc = "enter"
  /\ tr.depth # 0
  /\ tr' = [tr EXCEPT !.pc = "return", !.hits = @ + 1,
                      !.path = Append(@, [kind |-> "miss"]),
                      !.result = <<Background(tr.ray), tr.depth>>]
  /\ UNCHANGED <<objects, world, query, answer, mat, obj, tex, pipeVars>>

\* world.rs:68-70, 74-75: a hit whose material does not scatter
TraceEmitted(emitted) ==
  /\ tr.pc = "enter"
  /\ tr.depth # 0
  /\ tr' = [tr EXCEPT !.pc = "return", !.hits = @ + 1,
                      !.path = Append(@, [kind |-> "emit", emitted |-> emitted]),
                      !.result = <<emitted, tr.depth>>]
  /\ UNCHANGED <<objects, world, query, answer, mat, obj, tex, pipeVars>>

\* world.rs:68-71: a hit whose material scatters; trace calls itself
TraceScatter(emitted, attenuation, scattered) ==
  /\ tr.pc = "enter"
  /\ tr.depth # 0
  /\ tr' = [tr EXCEPT !.hits = @ + 1,
                      !.path = Append(@, [kind |-> "scatter",
                                          emitted |-> emitted,
                                          attenuation |-> attenuation,
                                          scattered |-> scattered]),
                      !.stack = Append(@, [ray |-> tr.ray,
                                           depth |-> tr.depth,
                                           emitted |-> emitted,
                                           attenuation |-> attenuation]),
                      !.ray = scattered,
                      !.depth = ChildDepth(tr.depth)]
  /\ UNCHANGED <<objects, world, query, answer, mat, obj, tex, pipeVars>>

\* world.rs:71-72: the nested call returned (color, depth) to its caller
TraceUnwind ==
  /\ tr.pc = "return"
  /\ tr.stack # <<>>
  /\ LET top == tr.stack[Len(tr.stack)] IN
       tr' = [tr EXCEPT !.stack = SubSeq(@, 1, Len(@) - 1),
                        !.ray = top.ray,
                        !.depth = top.depth,
                        !.result = <<Combine(tr.result[1], top.attenuation,
                                             top.emitted),
                                     tr.result[2]>>]
  /\ UNCHANGED <<objects, world, query, answer, mat, obj, tex, pipeVars>>

\* main.rs:261: buffer.set((x, y), color, MAX_DEPTH - depth), on u32; a
\* negative difference stands for the subtraction that underflows
TraceStore ==
  /\ tr.pc = "return"
  /\ tr.stack = <<>>
  /\ tr' = [tr EXCEPT !.pc = "done", !.recorded = MaxDepth - tr.result[2]]
  /\ UNCHANGED <<objects, world, query, answer, mat, obj, tex, pipeVars>>

CameraTrace ==
  \/ \E ray \in Rays, depth \in 0..MaxDepth : TraceCall(ray, depth)
  \/ TraceBlack
  \/ TraceMiss
  \/ \E e \in Emissions : TraceEmitted(e)
  \/ \E e \in Emissions, a \in Attenuations, r \in Rays : TraceScatter(e, a, r)
  \/ TraceUnwind
  \/ TraceStore

(***************************************************************************)
(* Materials, material.rs.  A material is a record of its fields; what its *)
(* operations draw at random is an argument.                               *)
(***************************************************************************)
\* the product of two f32 values
FMul(x, y) == Frac(x[1] * y[1], x[2] * y[2])

\* Metal::new, material.rs:255-258
MetalNew(fuzz, surface) ==
  [kind |-> "Metal",
   fuzz |-> IF Lt(fuzz, FromInt(1)) THEN fuzz ELSE FromInt(1),
   surface |-> surface]

LambertianNew(surface) == [kind |-> "Lambertian", surface |-> surface]
DiffuseLightNew(emit) == [kind |-> "DiffuseLight", emit |-> emit]
\* eve.rs:128-168: a material with a glow and a normal map
EveMaterialNew(glow, norm) == [kind |-> "EveMaterial", glow |-> glow, norm |-> norm]
UnitMaterial == [kind |-> "Unit"]
\* Mix::new, material.rs:398-400
MixNew(ratio, left, right) ==
  [kind |-> "Mix", ratio |-> ratio, left |-> left, right |-> right]

\* Metal::scatter, material.rs:262-279, along the surface normal: cosine is
\* reflected . normal and sphere is random_in_unit_sphere() . normal
MetalScatter(m, cosine, sphere) ==
  LET along == FAdd(cosine, FMul(sphere, m.fuzz))
  IN  IF Lt(FromInt(0), along)
      THEN Some([attenuation |-> m.surface, along |-> along])
      ELSE None

\* Material::scatter of the materials a Mix is made of
Scatter(m) ==
  CASE m.kind = "Lambertian" -> Some([attenuation |-> m.surface])  \* 204-220
    [] m.kind = "DiffuseLight" -> None                             \* 239-241
    [] m.kind = "EveMaterial" -> Some([attenuation |-> m.glow])    \* eve.rs:129-153
    [] m.kind = "Unit" -> None                                     \* 386-388

\* Material::emit: the default returns None, material.rs:17-19
Emit(m) ==
  CASE m.kind = "DiffuseLight" -> Some(m.emit)                     \* 243-245
    [] m.kind = "EveMaterial" -> Some(m.glow)                      \* eve.rs:155-162
    [] OTHER -> None

\* Material::normal: the default returns None, material.rs:20-22
MaterialNormal(m) ==
  CASE m.kind = "EveMaterial" -> Some(m.norm)                      \* eve.rs:164-167
    [] OTHER -> None

\* Material::alpha_test: the default returns true, material.rs:24-26
AlphaTest(m) ==
  CASE m.kind = "Lambertian" -> m.surface # V3Zero                 \* 222-224
    [] OTHER -> TRUE

\* impl Material for Mix, material.rs:402-426; draw is f32::rand()
MixScatter(m, draw) ==
  IF Lt(draw, m.ratio) THEN Scatter(m.left) ELSE Scatter(m.right)
MixEmit(m, draw) ==
  IF Lt(draw, m.ratio) THEN Emit(m.left) ELSE Emit(m.right)
MixAlphaTest(m, draw) ==
  IF Lt(draw, m.ratio) THEN AlphaTest(m.left) ELSE AlphaTest(m.right)
\* Mix has no normal of its own: the default of the trait, material.rs:20-22
MixNormal(m) == None

\* the values handed to Metal::new and Mix::new, and what f32::rand draws
FuzzInputs ==
  {F32NegInfinity, FromInt(-2), Frac(-1, 2), FromInt(0), Frac(1, 2),
   FromInt(1), Frac(3, 2), F32Infinity, F32NaN}
Ratios == {FromInt(0), Frac(1, 2), FromInt(1)}
Draws == {FromInt(0), Frac(1, 2), Frac(9, 10)}
Cosines == {Frac(1, 2), FromInt(1)}
SphereDraws == {Frac(-9, 10), FromInt(0), Frac(9, 10)}
MixParts ==
  {LambertianNew(<<1, 1, 1>>), DiffuseLightNew(<<4, 4, 4>>),
   EveMaterialNew(<<2, 0, 0>>, <<0, 0, 1>>),
   EveMaterialNew(<<2, 0, 0>>, <<1, 0, 0>>), UnitMaterial}

NoOp == [name |-> "none", draw |-> FromInt(0), result |-> None]
IdleMat == [metal |-> None, mix |-> None, op |-> NoOp]

\* a scene builds a Metal (scenes.rs:135, scenes/menger.rs:36)
BuildMetal(fuzz) ==
  /\ mat.metal = None
  /\ mat' = [mat EXCEPT !.metal = Some(MetalNew(fuzz, <<1, 1, 1>>))]
  /\ UNCHANGED <<objects, world, query, answer, tr, obj, tex, pipeVars>>

\* Hit::scatter on a hit of the Metal, geom.rs:26-28
ScatterMetal(cosine, sphere) ==
  /\ mat.metal # None
  /\ mat' = [mat EXCEPT !.op = [name |-> "metal_scatter", draw |-> sphere,
                                result |-> MetalScatter(mat.metal[1], cosine,
                                                        sphere)]]
  /\ UNCHANGED <<objects, world, query, answer, tr, obj, tex, pipeVars>>

\* a Mix is built (eve.rs:144-148)
BuildMix(ratio, left, right) ==
  /\ mat.mix = None
  /\ mat' = [mat EXCEPT !.mix = Some(MixNew(ratio, left, right))]
  /\ UNCHANGED <<objects, world, query, answer, tr, obj, tex, pipeVars>>

\* one operation of the Material trait is called on the Mix
CallMix(name, draw) ==
  /\ mat.mix # None
  /\ mat' = [mat EXCEPT !.op =
       [name |-> name, draw |-> draw,
        result |-> CASE name = "scatter" -> MixScatter(mat.mix[1], draw)
                     [] name = "emit" -> MixEmit(mat.mix[1], draw)
                     [] name = "alpha_test" -> <<MixAlphaTest(mat.mix[1], draw)>>
                     [] name = "normal" -> MixNormal(mat.mix[1])]]
  /\ UNCHANGED <<objects, world, query, answer, tr, obj, tex, pipeVars>>

NextMaterial ==
  \/ \E f \in FuzzInputs : BuildMetal(f)
  \/ \E c \in Cosines, r \in SphereDraws : ScatterMetal(c, r)
  \/ \E r \in Ratios, l \in MixParts, m \in MixParts : BuildMix(r, l, m)
  \/ \E d \in Draws : CallMix("scatter", d) \/ CallMix("emit", d)
                        \/ CallMix("alpha_test", d) \/ CallMix("normal", d)

(***************************************************************************)
(* Surfaces (texture.rs) and the cube map background (material.rs).  A     *)
(* Texture stands for its sides; a SolidColor for its colour.              *)
(***************************************************************************)
\* the wrappers put around one texture
MaxWraps == 2
\* the sides of the textures loaded
Sides == 1..2
Wrappers == {"Arc", "Box", "SolidColorFallback"}

\* Texture::load_bytes, texture.rs:72-102
TextureNew(width, height) ==
  [kind |-> "Texture", width |-> width, height |-> height]
\* SolidColor(color), texture.rs:180
SolidColorNew(color) == [kind |-> "SolidColor", color |-> color]
\* Arc::new(surface) (Texture::shared, texture.rs:104-106), Box::new(surface)
\* and SolidColorFallback::new(color, surface) (texture.rs:341-345), whose
\* colour the sizes do not read
WrapSurface(kind, surface) == [kind |-> kind, surface |-> surface]

\* Surface::width: Texture (texture.rs:118-120), SolidColor (183-185),
\* Arc<S> (152-154), Box<S> (166-168), SolidColorFallback (348-350)
RECURSIVE SurfaceWidth(_)
SurfaceWidth(s) ==
  CASE s.kind = "Texture" -> s.width
    [] s.kind = "SolidColor" -> 1
    [] s.kind = "Arc" -> SurfaceWidth(s.surface)
    [] s.kind = "Box" -> SurfaceWidth(s.surface)
    [] s.kind = "SolidColorFallback" -> SurfaceWidth(s.surface)

\* Surface::height: Texture (texture.rs:122-124), SolidColor (187-189),
\* Arc<S> (156-158), Box<S> (170-172), SolidColorFallback (352-354), which
\* returns self.surface.width()
RECURSIVE SurfaceHeight(_)
SurfaceHeight(s) ==
  CASE s.kind = "Texture" -> s.height
    [] s.kind = "SolidColor" -> 1
    [] s.kind = "Arc" -> SurfaceHeight(s.surface)
    [] s.kind = "Box" -> SurfaceHeight(s.surface)
    [] s.kind = "SolidColorFallback" -> SurfaceWidth(s.surface)

\* SolidColor::get_f, texture.rs:191-193
SolidColorGetF(s, index) == s.color

\* CubeMap::new, material.rs:102-118; the transform is the rotation
CubeMapNew(x_pos, x_neg, y_pos, y_neg, z_pos, z_neg, rotation) ==
  [x_pos |-> x_pos, x_neg |-> x_neg, y_pos |-> y_pos, y_neg |-> y_neg,
   z_pos |-> z_pos, z_neg |-> z_neg, transform |-> rotation]

\* CubeMap::background, material.rs:122-189, up to the colour it hands to
\* contract(): the index chosen, the uv and what get_f returned
CubeMapBackground(cm, direction) ==
  LET p == Rotate(cm.transform, direction)
      abs_p == <<Abs(p[1]), Abs(p[2]), Abs(p[3])>>
      is_x_pos == p[1] > 0
      is_y_pos == p[2] > 0
      is_z_pos == p[3] > 0
      is_x_large == abs_p[1] >= abs_p[2] /\ abs_p[1] >= abs_p[3]
      is_y_large == abs_p[2] >= abs_p[1] /\ abs_p[2] >= abs_p[3]
      is_z_large == abs_p[3] >= abs_p[1] /\ abs_p[3] >= abs_p[2]
      \* <<index, u, v, max_axis>>
      pick == IF is_x_large
                THEN IF is_x_pos THEN <<0, -p[3], p[2], abs_p[1]>>
                     ELSE <<1, p[3], p[2], abs_p[1]>>
              ELSE IF is_y_large
                THEN IF is_y_pos THEN <<3, p[1], -p[3], abs_p[2]>>
                     ELSE <<2, p[1], p[3], abs_p[2]>>
              ELSE IF is_z_large
                THEN IF is_z_pos THEN <<4, p[1], p[2], abs_p[3]>>
                     ELSE <<5, -p[1], p[2], abs_p[3]>>
              ELSE <<0, 0, 0, 0>>
      uv == <<FHalf(FAdd(Frac(pick[2], pick[4]), FromInt(1))),
              FHalf(FAdd(Frac(pick[3], pick[4]), FromInt(1)))>>
      face == CASE pick[1] = 0 -> cm.x_pos
                [] pick[1] = 1 -> cm.x_neg
                [] pick[1] = 2 -> cm.y_pos
                [] pick[1] = 3 -> cm.y_neg
                [] pick[1] = 4 -> cm.z_pos
                [] pick[1] = 5 -> cm.z_neg
  IN  [index |-> pick[1], uv |-> uv, color |-> SolidColorGetF(face, uv)]

\* the ray directions handed to the background
Axis == {-2, -1, 0, 1, 2}
Directions == Axis \X Axis \X Axis
\* the colour of each face of the cube map the model builds
FaceColor ==
  [x_pos |-> <<1, 0, 0, 1>>, x_neg |-> <<1, 0, 0, 0>>,
   y_pos |-> <<0, 1, 0, 1>>, y_neg |-> <<0, 1, 0, 0>>,
   z_pos |-> <<0, 0, 1, 1>>, z_neg |-> <<0, 0, 1, 0>>]

NoCall == [name |-> "none", arg |-> None, result |-> None]
IdleTex == [surface |-> None, wraps |-> 0, cube |-> None, op |-> NoCall]

\* a texture is loaded (obj_loader.rs:225, scenes/mario.rs:52)
LoadTexture(width, height) ==
  /\ tex.surface = None
  /\ tex' = [tex EXCEPT !.surface = Some(TextureNew(width, height))]
  /\ UNCHANGED <<objects, world, query, answer, tr, mat, obj, pipeVars>>

\* the surface is shared, boxed or given a fallback colour
\* (scenes/mario.rs:218)
Wrap(kind) ==
  /\ tex.surface # None
  /\ tex.wraps < MaxWraps
  /\ tex' = [tex EXCEPT !.surface = Some(WrapSurface(kind, tex.surface[1])),
                        !.wraps = @ + 1, !.op = NoCall]
  /\ UNCHANGED <<objects, world, query, answer, tr, mat, obj, pipeVars>>

\* width() and height() are called on the surface
Measure ==
  /\ tex.surface # None
  /\ tex' = [tex EXCEPT !.op =
       [name |-> "size", arg |-> None,
        result |-> <<SurfaceWidth(tex.surface[1]),
                     SurfaceHeight(tex.surface[1])>>]]
  /\ UNCHANGED <<objects, world, query, answer, tr, mat, obj, pipeVars>>

\* eve::environment builds the cube map, eve.rs:389-397
BuildCubeMap(rotation) ==
  /\ tex.cube = None
  /\ tex' = [tex EXCEPT !.cube =
       Some(CubeMapNew(SolidColorNew(FaceColor.x_pos),
                       SolidColorNew(FaceColor.x_neg),
                       SolidColorNew(FaceColor.y_pos),
                       SolidColorNew(FaceColor.y_neg),
                       SolidColorNew(FaceColor.z_pos),
                       SolidColorNew(FaceColor.z_neg), rotation))]
  /\ UNCHANGED <<objects, world, query, answer, tr, mat, obj, pipeVars>>

\* a ray that hit nothing asks the cube map for the background
CallBackground(direction) ==
  /\ tex.cube # None
  /\ tex' = [tex EXCEPT !.op =
       [name |-> "background", arg |-> Some(direction),
        result |-> CubeMapBackground(tex.cube[1], direction)]]
  /\ UNCHANGED <<objects, world, query, answer, tr, mat, obj, pipeVars>>

NextSurface ==
  \/ \E w \in Sides, h \in Sides : LoadTexture(w, h)
  \/ \E kind \in Wrappers : Wrap(kind)
  \/ Measure
  \/ BuildCubeMap(V3Zero)
  \/ \E d \in Directions : CallBackground(d)

(***************************************************************************)
(* ObjLoader::load, obj_loader.rs:332-452, with SimpleTexturedBuilder as   *)
(* the builder.  A line is what split_whitespace makes of it; the value a  *)
(* v, vn or vt line builds stands for its coordinates and is the number of *)
(* the line.  An f line names one corner, used for all three.              *)
(***************************************************************************)
\* the lines read from one file
MaxLines == 5

\* ObjContext::default(), obj_loader.rs:310-315
DefaultContext ==
  [group_name |-> None, material_name |-> None, material_library |-> None]

\* the groups SimpleTexturedBuilder::with_filter was given
FilteredGroups == {"hidden"}

\* SimpleTexturedBuilder::include_group, obj_loader.rs:301-307
IncludeGroup(context) ==
  IF context.group_name # None
  THEN context.group_name[1] \notin FilteredGroups
  ELSE TRUE

\* Vec::get(i - 1) for a parsed index i >= 1
Get(items, i) == IF i \in 1..Len(items) THEN Some(items[i]) ELSE None

\* read_face, obj_loader.rs:398-420: the corner "v//vn" or "v/vt/vn"
ReadFace(corner, vertexes, normals, uvs) ==
  LET v == Get(vertexes, corner.v)
      uv == IF corner.form = "v//vn" THEN Get(uvs, 1) ELSE Get(uvs, corner.vt)
      n == Get(normals, corner.vn)
  IN  IF v = None \/ uv = None \/ n = None THEN None
      ELSE Some([v |-> v[1], n |-> n[1], uv |-> uv[1]])

\* SimpleTexturedBuilder::build_face, obj_loader.rs:278-299: Err without a
\* material the builder knows
BuildFace(context, corner) ==
  IF context.material_name = None THEN None
  ELSE Some([a |-> corner, b |-> corner, c |-> corner,
             material |-> context.material_name[1]])

IdleObj == [pc |-> "idle", lines |-> <<>>, context |-> DefaultContext,
            include_faces |-> TRUE, vertexes |-> <<>>, normals |-> <<>>,
            uvs |-> <<>>, faces |-> <<>>, calls |-> <<>>]

\* the lines of the files
GroupNames == {"shown", "hidden"}
Corners ==
  {[form |-> "v/vt/vn", v |-> 1, vt |-> 1, vn |-> 1],
   [form |-> "v/vt/vn", v |-> 2, vt |-> 1, vn |-> 1],
   [form |-> "v//vn", v |-> 1, vt |-> 0, vn |-> 1]}

\* obj_loader.rs:337-348: the file is opened, the builder is asked about
\* the group of the default context
LoadOpen ==
  /\ obj.pc = "idle"
  /\ obj' = [IdleObj EXCEPT !.pc = "reading",
                            !.include_faces = IncludeGroup(DefaultContext)]
  /\ UNCHANGED <<objects, world, query, answer, tr, mat, tex, pipeVars>>

\* read_line returned a line: the loader's state with the line noted
Read(line) == [obj EXCEPT !.lines = Append(@, line)]
CanRead == obj.pc = "reading" /\ Len(obj.lines) < MaxLines
LineNo == Len(obj.lines) + 1
Call(fn, args) == [fn |-> fn, line |-> LineNo, context |-> obj.context,
                   args |-> args]

\* obj_loader.rs:359-370: a "v" line; parsed tells if x, y and z parse
LoadVertex(parsed) ==
  /\ CanRead
  /\ obj' = LET o == Read([kind |-> "v", parsed |-> parsed])
            IN  IF parsed
                THEN [o EXCEPT !.vertexes = Append(@, LineNo),
                               !.calls = Append(@, Call("build_vertex", LineNo))]
                ELSE [o EXCEPT !.pc = "err"]
  /\ UNCHANGED <<objects, world, query, answer, tr, mat, tex, pipeVars>>

\* obj_loader.rs:371-382: a "vn" line
LoadNormal(parsed) ==
  /\ CanRead
  /\ obj' = LET o == Read([kind |-> "vn", parsed |-> parsed])
            IN  IF parsed
                THEN [o EXCEPT !.normals = Append(@, LineNo),
                               !.calls = Append(@, Call("build_normal", LineNo))]
                ELSE [o EXCEPT !.pc = "err"]
  /\ UNCHANGED <<objects, world, query, answer, tr, mat, tex, pipeVars>>

\* obj_loader.rs:383-393: a "vt" line
LoadUv(parsed) ==
  /\ CanRead
  /\ obj' = LET o == Read([kind |-> "vt", parsed |-> parsed])
            IN  IF parsed
                THEN [o EXCEPT !.uvs = Append(@, LineNo),
                               !.calls = Append(@, Call("build_uv", LineNo))]
                ELSE [o EXCEPT !.pc = "err"]
  /\ UNCHANGED <<objects, world, query, answer, tr, mat, tex, pipeVars>>

\* obj_loader.rs:394-430: an "f" line
LoadFace(corner) ==
  /\ CanRead
  /\ obj' = LET o == Read([kind |-> "f", corner |-> corner])
                read == ReadFace(corner, obj.vertexes, obj.normals, obj.uvs)
            IN  IF ~obj.include_faces THEN o
                ELSE IF read = None THEN [o EXCEPT !.pc = "err"]
                ELSE LET face == BuildFace(obj.context, read[1])
                         called == [o EXCEPT !.calls =
                                      Append(@, Call("build_face", read[1]))]
                     IN  IF face = None THEN [called EXCEPT !.pc = "err"]
                         ELSE [called EXCEPT !.faces = Append(@, face[1])]
  /\ UNCHANGED <<objects, world, query, answer, tr, mat, tex, pipeVars>>

\* obj_loader.rs:431-436: an "o" or "g" line, with a name or without
LoadGroup(name) ==
  /\ CanRead
  /\ obj' = LET o == Read([kind |-> "g", name |-> name])
            IN  IF name = None THEN o
                ELSE LET context == [obj.context EXCEPT !.group_name = name]
                     IN  [o EXCEPT !.context = context,
                                   !.include_faces = IncludeGroup(context)]
  /\ UNCHANGED <<objects, world, query, answer, tr, mat, tex, pipeVars>>

\* obj_loader.rs:437-441: a "usemtl" line
LoadUseMtl(name) ==
  /\ CanRead
  /\ obj' = LET o == Read([kind |-> "usemtl", name |-> name])
            IN  IF name = None THEN o
                ELSE [o EXCEPT !.context.material_name = name]
  /\ UNCHANGED <<objects, world, query, answer, tr, mat, tex, pipeVars>>

\* obj_loader.rs:442-446: a "mtllib" line
LoadMtllib(file) ==
  /\ CanRead
  /\ obj' = [Read([kind |-> "mtllib", file |-> file])
               EXCEPT !.context.material_library = Some(file)]
  /\ UNCHANGED <<objects, world, query, answer, tr, mat, tex, pipeVars>>

\* obj_loader.rs:447: any other line
LoadOther ==
  /\ CanRead
  /\ obj' = Read([kind |-> "#"])
  /\ UNCHANGED <<objects, world, query, answer, tr, mat, tex, pipeVars>>

\* obj_loader.rs:351-354, 451: read_line returns 0 bytes, load returns Ok
LoadEof ==
  /\ obj.pc = "reading"
  /\ obj' = [obj EXCEPT !.pc = "ok"]
  /\ UNCHANGED <<objects, world, query, answer, tr, mat, tex, pipeVars>>

ObjLoaderLoad ==
  \/ LoadOpen
  \/ \E parsed \in BOOLEAN : LoadVertex(parsed) \/ LoadNormal(parsed)
                               \/ LoadUv(parsed)
  \/ \E corner \in Corners : LoadFace(corner)
  \/ \E name \in {None} \cup {Some(g) : g \in GroupNames} : LoadGroup(name)
  \/ \E name \in {None, Some("stone")} : LoadUseMtl(name)
  \/ LoadMtllib("castle.mtl")
  \/ LoadOther
  \/ LoadEof

(***************************************************************************)
(* Intersection queries: a World is filled, build_bvh is called and rays   *)
(* are intersected with it and with its parts.                             *)
(***************************************************************************)
\* the range Camera::trace asks for, world.rs:68
TraceTMin == Frac(1, 1000)

MakeQuery(ray, t_min, t_max) == [ray |-> ray, t_min |-> t_min, t_max |-> t_max]
IdleQuery == MakeQuery(MakeRay(<<0, 0, 0>>, <<1, 0, 0>>), TraceTMin, F32Infinity)

\* built: build_bvh was called; bvh, scan and part: what was answered
NoAnswer == [built |-> FALSE, bvh |-> None, scan |-> None, part |-> None]

\* the outcomes of f32::rand() in Volume::intersect
Rnd == {"inside", "beyond"}

\* an object and the intersectables inside it
RECURSIVE Parts(_)
Parts(o) ==
  {o} \cup
  CASE o.kind = "World" -> UNION {Parts(o.objects[i]) : i \in 1..Len(o.objects)}
    [] o.kind = "BvhNode" ->
         (IF o.left = None THEN {} ELSE Parts(o.left[1])) \cup
         (IF o.right = None THEN {} ELSE Parts(o.right[1]))
    [] o.kind = "Model" -> Parts(o.triangles)
    [] o.kind = "Volume" -> Parts(o.target)
    [] OTHER -> {}

\* World::build_bvh on the filled World
BuildWorld ==
  /\ ~answer.built
  /\ world' \in BuildBvh(WorldNew(objects))
  /\ answer' = [answer EXCEPT !.built = TRUE]
  /\ UNCHANGED <<objects, query, unitVars, pipeVars>>

\* BvhNode::intersect on the node build_bvh made
Traverse ==
  /\ answer.built
  /\ IsObject(world)
  /\ answer.bvh = None
  /\ answer' = [answer EXCEPT !.bvh =
       Some(Intersect(world.objects[1], query.ray, query.t_min,
                      query.t_max, "inside"))]
  /\ UNCHANGED <<objects, world, query, unitVars, pipeVars>>

\* World::intersect on the World as filled: the scan over all its objects
LinearScan ==
  /\ answer.scan = None
  /\ answer' = [answer EXCEPT !.scan =
       Some(Intersect(WorldNew(objects), query.ray, query.t_min, query.t_max,
                      "inside"))]
  /\ UNCHANGED <<objects, world, query, unitVars, pipeVars>>

\* intersect on the built World or on an intersectable inside it
IntersectPart ==
  /\ answer.built
  /\ IsObject(world)
  /\ answer.part = None
  /\ \E o \in Parts(world), rnd \in Rnd :
       answer' = [answer EXCEPT !.part =
         Some([of |-> o,
               hit |-> Intersect(o, query.ray, query.t_min, query.t_max, rnd)])]
  /\ UNCHANGED <<objects, world, query, unitVars, pipeVars>>

(***************************************************************************)
(* The program.                                                            *)
(***************************************************************************)
\* the program as main starts it, before the render thread's first step
StartedBesidesDisplay ==
  /\ quick_pass = FALSE
  /\ pixel_update_flag = FALSE
  /\ display_mode = "Default"
  /\ control_flow = "Poll"
  /\ events = NoEvents
  /\ texture = NoFrame
  /\ pixels = [count |-> 0, px |-> ZeroBuffer]
  /\ pixels_lock = NoOne
  /\ albedo = NoBuffer
  /\ albedo_lock = NoOne
  /\ normal = NoBuffer
  /\ normal_lock = NoOne
  /\ frame = 0
  /\ rpc = "generate"
  /\ ri = 0
  /\ albedo_buf = ZeroFloatBuffer
  /\ normal_buf = ZeroFloatBuffer
  /\ row = 0
  /\ pre = UnspawnedPre
  /\ wk = UnspawnedWk
  /\ merged = <<>>
  /\ passes = 0
  /\ keys = 0
  /\ released = NoKey
  /\ tr = IdleTrace
  /\ mat = IdleMat
  /\ obj = IdleObj
  /\ tex = IdleTex
  /\ call = [accAtEntry |-> [count |-> 0, px |-> ZeroBuffer], updates |-> 0,
             spawned |-> FALSE, quickSeen |-> FALSE, viaQuick |-> FALSE,
             atCheck |-> "unread"]

\* the program with room for `threads` display threads at a time
StartedWith(threads) ==
  /\ StartedBesidesDisplay
  /\ conv = [c \in threads |-> IdleConv]

Started == StartedWith(DisplayThreads)

\* the program rendering one of the scenes
InitWith(scenes) ==
  /\ Started
  /\ scene \in scenes
  /\ frame_limit \in FrameLimits
  /\ objects = <<>>
  /\ world = WorldNew(<<>>)
  /\ query = IdleQuery
  /\ answer = NoAnswer

\* a World filled with one of the object lists and asked one of the queries
InitQuery(lists, queries) ==
  /\ Started
  /\ scene = "dim"
  /\ frame_limit = None
  /\ objects \in lists
  /\ world = WorldNew(objects)
  /\ query \in queries
  /\ answer = NoAnswer

\* the render thread while quick-pass stays clear
RenderUntouched ==
  \/ Generate \/ PreSpawn \/ PreJoin \/ SetAlbedo \/ SetNormal \/ CheckQuick
  \/ ClearLock \/ ClearPx \/ ClearFinish \/ MainSpawn \/ MainJoin
  \/ NextFrame \/ Complete

RenderThread == RenderUntouched \/ QuickSend

PreThread(w) == PreFetch(w) \/ PreAlbedoRow(w) \/ PreNormalRow(w)

MainThread(w) ==
  \/ TracePass(w) \/ MergeLock(w) \/ MergePx(w) \/ MergeFinish(w)
  \/ Notify(w) \/ Poll(w)

\* a display thread in display mode Default
ConvDefault(c) ==
  \/ ConvCas(c) \/ ToRgbLock(c) \/ ToRgbReturn(c) \/ ConvSend(c)
  \/ ConvReset(c)

ConvThread(c) == ConvDefault(c) \/ ToRgbAuxLock(c)

\* a display thread of a build with the denoise feature
ConvDenoise(c) == ConvThread(c) \/ DenoiseAlbedoLock(c) \/ DenoiseNormalLock(c)

\* the event loop while no FatalError arrives
EventLoopSound ==
  \/ HandleUpdate \/ HandleUpdateLost \/ HandleRedraw \/ HandleComplete

EventLoop == EventLoopSound \/ HandleFatalError

Workers1 == \E w \in Workers : PreThread(w) \/ MainThread(w)

(***************************************************************************)
(* Specifications.  Each is the program in a part of its environment.      *)
(* SpecRender: the user toggles quick-pass while the event loop is busy    *)
(* elsewhere.  SpecSum: the scene with the bright emitter is rendered.     *)
(* SpecDisplay: the event loop and the display threads are at work and no  *)
(* key is pressed.  FairRender and FairPanic add the scheduler's fairness, *)
(* and FairPanic the panics.                                               *)
(***************************************************************************)
NextRender == RenderThread \/ Workers1 \/ KeyGrave
SpecRender == InitWith({"black", "dim"}) /\ [][NextRender]_vars

NextSum == RenderUntouched \/ Workers1
SpecSum == InitWith({"mixed"}) /\ [][NextSum]_vars

NextDisplay ==
  \/ RenderUntouched
  \/ Workers1
  \/ \E c \in DisplayThreads : ConvDefault(c)
  \/ EventLoopSound
SpecDisplay == InitWith({"dim"}) /\ [][NextDisplay]_vars

\* the user releases number keys and the backtick key while the event loop
\* and its display threads handle the Updates
NextKeys ==
  \/ KeyGrave
  \/ \E key \in NumberKeys : KeyNumber(key)
  \/ HandleUpdate \/ HandleUpdateLost \/ HandleRedraw
  \/ \E c \in DisplayThreads : ConvThread(c)
SpecKeys == InitWith({"dim"}) /\ [][NextKeys]_vars

\* one frame limit is rendered while every Update finds a display thread to
\* run in, so that a second thread meets the one that is converting
InitRace ==
  /\ StartedWith(RacingThreads)
  /\ scene = "dim"
  /\ frame_limit = Some(1)
  /\ objects = <<>>
  /\ world = WorldNew(<<>>)
  /\ query = IdleQuery
  /\ answer = NoAnswer
NextRace ==
  \/ RenderUntouched
  \/ Workers1
  \/ \E c \in RacingThreads : ConvDefault(c)
  \/ HandleUpdate \/ HandleRedraw \/ HandleComplete
SpecRace == InitRace /\ [][NextRace]_vars

\* the keys of the display modes that take a second lock
LockingKeys == {"Key2", "Key4", "Key5"}

\* the first key the user releases
FirstKey(key) == keys = 0 /\ KeyNumber(key)

\* one frame is rendered, the user switches the display mode once and the
\* display threads convert in the mode they find
NextLocks ==
  \/ RenderUntouched
  \/ Workers1
  \/ \E key \in LockingKeys : FirstKey(key)
  \/ EventLoopSound
  \/ \E c \in DisplayThreads : ConvDenoise(c)
InitLocks == InitWith({"dim"}) /\ frame_limit = Some(1)
SpecLocks == InitLocks /\ [][NextLocks]_vars

\* every thread that can take a step eventually takes one
ThreadFairness ==
  /\ WF_vars(RenderThread)
  /\ \A w \in Workers : WF_vars(PreThread(w) \/ MainThread(w))

FairRender == SpecRender /\ ThreadFairness

Panics ==
  \/ GeneratePanic
  \/ CatchUnwind
  \/ \E w \in Workers : PrePanic(w) \/ TracePanic(w) \/ SpinPass(w)

NextPanic ==
  \/ RenderUntouched
  \/ Workers1
  \/ \E c \in DisplayThreads : ConvDefault(c)
  \/ EventLoop
  \/ Panics
FairPanic ==
  /\ InitWith({"dim"}) /\ [][NextPanic]_vars
  /\ WF_vars(RenderUntouched)
  /\ \A w \in Workers : WF_vars(PreThread(w) \/ MainThread(w) \/ SpinPass(w))
  /\ WF_vars(CatchUnwind)
  /\ WF_vars(EventLoop)
  /\ \A c \in DisplayThreads : WF_vars(ConvDefault(c))

(***************************************************************************)
(* Intersection: Worlds of a few primitives at whole coordinates, asked    *)
(* rays from a grid.  Rays along an axis keep a sphere's discriminant a    *)
(* perfect square.                                                         *)
(***************************************************************************)
SphereA == SphereNew(<<0, 0, 0>>, 1)
SphereB == SphereNew(<<2, 0, 0>>, 1)
SphereHollow == SphereNew(<<0, 0, 0>>, -1)
TriangleFlat == TriangleNew(<<0, 0, 1>>, <<2, 0, 1>>, <<0, 2, 1>>)
TriangleSlope == TriangleNew(<<4, 0, 0>>, <<0, 4, 0>>, <<4, 0, 4>>)

AxisDirections ==
  {<<1, 0, 0>>, <<-1, 0, 0>>, <<0, 1, 0>>, <<0, -1, 0>>, <<0, 0, 1>>, <<0, 0, -1>>}
GridDirections ==
  {<<x, y, z>> : x \in {-1, 0, 1}, y \in {-1, 0, 1}, z \in {-1, 0, 1}} \ {<<0, 0, 0>>}
Ranges == {<<TraceTMin, F32Infinity>>, <<TraceTMin, FromInt(2)>>}

\* the lists BvhNode::new is given
MaxItems == 3
BvhPrims == {SphereA, SphereB, TriangleFlat}
BvhLists == UNION {[1..n -> BvhPrims] : n \in 0..MaxItems}
BvhQueries ==
  {MakeQuery(MakeRay(<<x, y, z>>, d), r[1], r[2]) :
     x \in {-2, 0, 1}, y \in {0, 1}, z \in {0, 1}, d \in AxisDirections, r \in Ranges}

NextBvh == BuildWorld \/ Traverse \/ LinearScan
SpecBvh == InitQuery(BvhLists, BvhQueries) /\ [][NextBvh]_vars

\* lists with items that have no bounding box: a World nothing was added
\* to (world.rs:146-149) and a Volume around one (geom.rs:651-653)
EmptyWorld == WorldNew(<<>>)
BoxlessPrims == {SphereA, TriangleFlat, EmptyWorld, VolumeNew(EmptyWorld)}
BoxlessLists == UNION {[1..n -> BoxlessPrims] : n \in 1..MaxItems}
BoxlessQueries ==
  {MakeQuery(MakeRay(<<-2, 0, 0>>, <<1, 0, 0>>), TraceTMin, F32Infinity),
   MakeQuery(MakeRay(<<0, 0, 0>>, <<0, 0, 1>>), TraceTMin, F32Infinity)}
SpecBoxless == InitQuery(BoxlessLists, BoxlessQueries) /\ [][NextBvh]_vars

\* the objects a scene adds: primitives, models, instances and volumes
SlopeModels == ModelNew(<<TriangleSlope>>) \cup ModelNew(<<TriangleSlope, TriangleFlat>>)
SlopeInstances ==
  {ModelInstance(m, t, <<0, 0, 0>>, k) :
     m \in ModelNew(<<TriangleSlope>>), t \in {<<0, 0, 0>>, <<1, 0, 0>>},
     k \in {<<1, 1, 1>>, <<2, 2, 2>>, <<2, 1, 1>>}}
HitObjects ==
  {SphereA, SphereHollow, TriangleSlope, VolumeNew(SphereA)} \cup SlopeModels
    \cup SlopeInstances
HitLists ==
  {<<o>> : o \in HitObjects} \cup {<<SphereA, m>> : m \in SlopeModels}
UsesSqrt(list) ==
  \E i \in 1..Len(list) : \E o \in Parts(list[i]) : o.kind = "Sphere"
HitQueries ==
  {MakeQuery(MakeRay(<<x, y, z>>, d), TraceTMin, F32Infinity) :
     x \in {-2, 0, 2}, y \in {0, 1}, z \in {0, 1}, d \in GridDirections}

InitHit ==
  /\ InitQuery(HitLists, HitQueries)
  /\ UsesSqrt(objects) => query.ray.direction \in AxisDirections
NextHit == BuildWorld \/ IntersectPart \/ LinearScan
SpecHit == InitHit /\ [][NextHit]_vars

(***************************************************************************)
(* The accumulator.                                                        *)
(***************************************************************************)
\* every order in which the buffers of a sequence can be merged
Orders(buffers) ==
  LET n == Len(buffers)
  IN  {[i \in 1..n |-> buffers[f[i]]] :
         f \in {g \in [1..n -> 1..n] : \A i, j \in 1..n : g[i] = g[j] => i = j}}

\* the accumulator is at rest: no merge or clear is under way
AtRest == pixels_lock = NoOne /\ rpc \notin {"clear_lock", "clear_px", "clear_finish"}

\* C1 as stated: whatever the order in which the K buffers merged since the
\* clear are merged into a cleared accumulator, the accumulator ends as the
\* one the threads have produced: sample_count K and, for every pixel, the
\* same color sum and the same depth sum
C1_AnyOrderSameAccumulator ==
  AtRest =>
    \A order \in Orders(merged) :
      /\ pixels.count = Len(order)
      /\ MergeAll(ZeroBuffer, order) = pixels.px

\* C1, amended: in any order the K buffers give sample_count K and, for every
\* pixel, the same depth sum; the color sums are the same for K <= 2 (f32
\* addition is commutative), and from K = 3 on they can differ with the order
\* (f32 addition is not associative)
C1_OrderIndependentSums ==
  AtRest =>
    \A order \in Orders(merged) :
      LET acc == MergeAll(ZeroBuffer, order)
      IN  /\ pixels.count = Len(order)
          /\ \A p \in PixelIds : acc[p][2] = pixels.px[p][2]
          /\ Len(order) <= 2 => acc = pixels.px

\* three buffers, not all alike, have been merged by the threads
C1_ThreeMerged ==
  /\ AtRest
  /\ Len(merged) >= 3
  /\ \E i, j \in 1..Len(merged) : \E p \in PixelIds :
       merged[i][p][2] # merged[j][p][2]

\* C2: in every reachable state of a frame, sample_count is the number of
\* Image::merge calls that have finished since the last Image::clear
C2_CountIsFinishedMerges == pixels.count = Len(merged)

\* a later frame has cleared the accumulator of the frame before and two
\* workers have merged into it since
C2_TwoMergedAfterClear ==
  /\ frame >= 1
  /\ Len(merged) = 2
  /\ \A w \in Workers : wk[w].merges = 1


\* C3: every snapshot Image::to_rgb_bytes reads is a prefix of the merges:
\* when the conversion returns, the count it has read is the number of
\* merges finished since the last clear and the pixel sums it has read are
\* the elementwise sum of exactly those whole buffers, with no part of a
\* merge or of a clear under way in them
C3_SnapshotIsWholeMerges ==
  [][\A c \in ConvThreads :
       (conv[c].pc # "send" /\ conv'[c].pc = "send") =>
         /\ conv'[c].snap.count = Len(merged)
         /\ conv'[c].snap.px = MergeAll(ZeroBuffer, merged)]_vars

\* a conversion has returned a snapshot of merged samples while a worker
\* was waiting to merge its next buffer
C3_SnapshotWhileMerging ==
  \E c \in ConvThreads :
    /\ conv[c].pc = "send"
    /\ conv[c].snap.count >= 1
    /\ conv[c].snap.px # ZeroBuffer
    /\ \E w \in Workers : wk[w].pc = "merge_lock"


(***************************************************************************)
(* render().                                                               *)
(***************************************************************************)
\* the auxiliary buffer the pre-render pass of the frame has computed
FrameAux == SomeBuffer([y \in Rows |-> AuxValue(frame, y)])

\* C7: when the quick-pass flag is set at render's load of it after the
\* pre-render pass, render only sends its Update and returns: the frame's
\* albedo and normal buffers are installed, exactly one Update is sent by the
\* time it has returned, no main-pass thread is spawned, and sample_count
\* and every pixel sum are as they were when render was called
C7_QuickPassShortCircuit ==
  (call.atCheck = "set" /\ rpc \notin {"generate", "exited"}) =>
    /\ rpc \in {"quick_send", "returned"}
    /\ albedo = FrameAux
    /\ normal = FrameAux
    /\ call.updates = IF rpc = "returned" THEN 1 ELSE 0
    /\ ~call.spawned
    /\ \A w \in Workers : wk[w].pc = "unspawned" /\ wk[w].updates = 0
    /\ pixels = call.accAtEntry

\* render has returned by the short cut in a later frame, over an
\* accumulator that holds the merges of the frame before
C7_ReturnedByShortCut ==
  /\ call.atCheck = "set"
  /\ rpc = "returned"
  /\ frame >= 1
  /\ pixels.count >= 1

\* C9 as stated: the black scene, a World with SolidBackground(0,0,0) and
\* no objects, goes through generate, World::build_bvh and render, and
\* after any number of merged samples every byte of its RGB output is 0
C9_BlackSceneRendersBlack ==
  scene = "black" =>
    /\ rpc # "stack_overflow"
    /\ \A i \in 1..(3 * NumPixels) :
         ToRgbBytes("Default", pixels.count, pixels.px, albedo, normal)[i] = 0


(***************************************************************************)
(* Intersection.                                                           *)
(***************************************************************************)
\* C4 as stated: for the primitives built into a BvhNode, a ray and a range,
\* BvhNode::intersect returns a hit iff the exhaustive scan over the
\* primitives finds one, and then the same t on the same primitive
C4_BvhEqualsLinearScan ==
  (answer.bvh # None /\ answer.scan # None) =>
    LET bvh_hit == answer.bvh[1]
        scan_hit == answer.scan[1]
    IN  /\ (bvh_hit # None) <=> (scan_hit # None)
        /\ bvh_hit # None =>
             /\ bvh_hit[1].t = scan_hit[1].t
             /\ bvh_hit[1].prim = scan_hit[1].prim

\* the invariant of a Hit for the ray it answers: a front-face normal
\* opposes the ray direction, and no normal points along it
HitInvariant(hit, ray) ==
  /\ hit.front_face => Dot(hit.normal, ray.direction) < 0
  /\ Dot(hit.normal, ray.direction) <= 0

\* an intersectable made of spheres and triangles only, in BvhNodes, Models
\* and Worlds
Plain(o) ==
  \A part \in Parts(o) :
    /\ part.kind \in {"Sphere", "Triangle", "BvhNode", "Model", "World"}
    /\ part.kind = "Sphere" => part.radius # 0

\* C10 as stated: every Hit returned by any intersectable (Sphere, Triangle,
\* BvhNode, Model, Instance, Volume, World) for a ray satisfies the Hit
\* invariant for that ray
C10_EveryHitKeepsInvariant ==
  (answer.part # None /\ answer.part[1].hit # None) =>
    HitInvariant(answer.part[1].hit[1], query.ray)

\* C10, amended: every Hit returned by a Sphere of non-zero radius, a
\* Triangle, or a BvhNode, Model or World made of those only satisfies the
\* Hit invariant for the ray; a Volume's Hit (normal +X, front_face true)
\* and an Instance's (normal re-transformed after the face test) need not
C10_PlainHitKeepsInvariant ==
  (answer.part # None /\ answer.part[1].hit # None /\ Plain(answer.part[1].of)) =>
    HitInvariant(answer.part[1].hit[1], query.ray)

\* a BvhNode over a sphere and a model has answered with a back-face hit
C10_BackFaceHitInBvh ==
  /\ answer.part # None
  /\ answer.part[1].hit # None
  /\ answer.part[1].of.kind = "BvhNode"
  /\ Plain(answer.part[1].of)
  /\ ~answer.part[1].hit[1].front_face
  /\ Dot(answer.part[1].hit[1].normal, query.ray.direction) < 0

(***************************************************************************)
(* Stopping.                                                               *)
(***************************************************************************)
\* some thread of the renderer has panicked
SomePanic ==
  \/ rpc = "panicked"
  \/ \E w \in Workers : pre[w].pc = "panicked" \/ wk[w].pc = "panicked"

\* render is in its main pass: the workers are being spawned or joined
InMainPass == rpc \in {"main_spawn", "main_join"}

\* C5 as stated: whenever the render thread or a pre-render or main-pass
\* thread it spawned panics, FatalError is eventually sent and the event
\* loop then sets ControlFlow::Exit
C5_PanicLeadsToExit == SomePanic ~> (control_flow = "Exit")

\* C6: once the quick-pass flag is set, no main-pass worker goes from its
\* poll into another sample pass and each merges at most once more; and
\* while the flag stays set the workers are joined and render returns
C6_QuickPassStopsWorkers ==
  /\ [](quick_pass => \A w \in Workers : wk[w].sinceSet <= 1)
  /\ [][quick_pass =>
          \A w \in Workers : ~(wk[w].pc = "poll" /\ wk'[w].pc = "pixel")]_vars
  /\ (quick_pass /\ InMainPass) ~> (~quick_pass \/ rpc = "returned")

\* the flag was set while a worker with no frame limit was tracing; the
\* worker has merged that pass and stopped
C6_StoppedAfterOneMerge ==
  /\ quick_pass
  /\ frame_limit = None
  /\ \E w \in Workers :
       wk[w].pc = "done" /\ wk[w].sinceSet = 1 /\ wk[w].merges >= 1

\* C8: with frame_limit = Some(n) and the quick-pass flag false throughout,
\* no worker merges more than n times, render returns, and when it has,
\* every worker has done exactly n passes and n merges and has exited and
\* sample_count is N*n; with frame_limit = None a worker leaves its loop
\* only at a poll that finds the quick-pass flag set
C8_FrameLimitBoundsPasses ==
  /\ [](\A n \in 0..MaxLimit :
          (frame_limit = Some(n) /\ ~call.quickSeen) =>
            /\ \A w \in Workers : wk[w].merges <= n
            /\ rpc = "returned" =>
                 /\ \A w \in Workers : wk[w].merges = n /\ wk[w].pc = "done"
                 /\ passes = Cpus * n
                 /\ pixels.count = Cpus * n)
  /\ [][\A w \in Workers :
          (wk[w].limit = None /\ wk[w].pc \notin {"unspawned", "done"}
             /\ wk'[w].pc = "done") =>
            (wk[w].pc = "poll" /\ quick_pass)]_vars
  /\ (frame_limit # None /\ InMainPass) ~> (call.quickSeen \/ rpc = "returned")

\* render has returned from a main pass of N workers with a limit of one
\* pass each, the flag never set
C8_ReturnedAtLimit ==
  /\ frame_limit = Some(1)
  /\ ~call.quickSeen
  /\ rpc = "returned"
  /\ pixels.count = Cpus


\* C13: for every non-empty list with an item whose bounding_box() is None,
\* BvhNode::new panics instead of returning a node, whatever the length of
\* the list, the place of the item and the axis drawn.
C13_BoxlessItemPanics ==
  (/\ answer.built
   /\ Len(objects) > 0
   /\ \E i \in 1..Len(objects) : BoundingBoxOf(objects[i]) = None)
    => world = Panicked

\* the item without a box between two spheres
C13_BoxlessInTheMiddle ==
  /\ answer.built
  /\ Len(objects) = 3
  /\ objects[1] = SphereA /\ objects[3] = SphereA
  /\ BoundingBoxOf(objects[2]) = None
  /\ world = Panicked

(***************************************************************************)
(* Camera::trace.                                                          *)
(***************************************************************************)
\* C11: trace(world, ray, d) returns (black, 0) for d = 0 without
\* intersecting the world; every nested call is made with depth - 1, so at
\* most d calls are nested and the call returns; the depth r it returns
\* satisfies 0 <= r <= d and MAX_DEPTH - r lies in 0..MAX_DEPTH, without
\* underflow.
C11_TraceDepthBounded ==
  /\ [](/\ Len(tr.stack) <= tr.depth0
        /\ tr.depth = tr.depth0 - Len(tr.stack)
        /\ \A i \in 1..Len(tr.stack) : tr.stack[i].depth = tr.depth0 - (i - 1)
        /\ tr.pc = "done" =>
             /\ tr.result[2] \in 0..tr.depth0
             /\ tr.recorded \in 0..MaxDepth
             /\ tr.depth0 = 0 => tr.result = <<V3Zero, 0>> /\ tr.hits = 0)
  /\ (tr.pc = "enter" ~> tr.pc = "done")

\* a call that scattered until no depth was left
C11_TracedToTheBottom ==
  /\ tr.pc = "done"
  /\ tr.depth0 = MaxDepth
  /\ tr.hits = MaxDepth
  /\ tr.result[2] = 0
  /\ tr.recorded = MaxDepth

\* the radiance the scene's answers define: nothing at depth 0, the
\* background on a miss, the emitted light of a hit that does not scatter,
\* and otherwise the radiance along the scattered ray, attenuated, plus the
\* emitted light
RECURSIVE Radiance(_, _, _, _)
Radiance(path, i, ray, depth) ==
  IF depth = 0 THEN <<V3Zero, 0>>
  ELSE CASE path[i].kind = "miss" -> <<Background(ray), depth>>
         [] path[i].kind = "emit" -> <<path[i].emitted, depth>>
         [] path[i].kind = "scatter" ->
              LET child == Radiance(path, i + 1, path[i].scattered, depth - 1)
                  c == child[1]
                  a == path[i].attenuation
                  e == path[i].emitted
              IN <<<<c[1] * a[1] + e[1], c[2] * a[2] + e[2],
                     c[3] * a[3] + e[3]>>, child[2]>>

\* C12: for depth > 0 trace returns (background(ray), depth) on a miss,
\* (emitted, depth) on a hit that does not scatter, and otherwise
\* (child_radiance * attenuation + emitted, child_depth) for the result of
\* tracing the scattered ray with depth - 1.
C12_TraceIsRadiance ==
  tr.pc = "done" /\ tr.depth0 > 0 =>
    tr.result = Radiance(tr.path, 1, tr.ray0, tr.depth0)

\* two scatters, each with light of its own, and then the background
C12_ScatteredTwiceThenMissed ==
  /\ tr.pc = "done"
  /\ Len(tr.path) = 3
  /\ tr.path[1].kind = "scatter" /\ tr.path[1].attenuation = <<2, 1, 0>>
  /\ tr.path[1].emitted # V3Zero
  /\ tr.path[2].kind = "scatter" /\ tr.path[2].attenuation = <<2, 1, 0>>
  /\ tr.path[2].emitted # V3Zero
  /\ tr.path[3].kind = "miss"

(***************************************************************************)
(* The keys.                                                               *)
(***************************************************************************)
ModeOrder == <<"Default", "Denoise", "Depth", "Albedo", "Normal">>
KeyName == <<"Key1", "Key2", "Key3", "Key4", "Key5">>

\* C16: releasing number key k in 1..5 sets the display mode to the k-th of
\* (Default, Denoise, Depth, Albedo, Normal) from any prior mode, leaves the
\* quick-pass flag as it was and sends Update exactly when the mode changed.
C16_NumberKeySelectsMode ==
  \A k \in 1..5 :
    released.key = KeyName[k] =>
      /\ display_mode = ModeOrder[k]
      /\ quick_pass = released.flag
      /\ released.sent <=> ModeOrder[k] # released.initial

\* key 3 released in mode Albedo with quick-pass set
C16_Key3AfterBacktick ==
  /\ released.key = "Key3"
  /\ released.prev = "Grave"
  /\ released.initial = "Albedo"
  /\ released.sent
  /\ quick_pass
  /\ events.update > 0

\* C17: a backtick release toggles the quick-pass flag in one atomic step,
\* so two successive releases restore it; the display mode becomes Albedo
\* when the flag turns on and Default when it turns off.
C17_BacktickToggles ==
  released.key = "Grave" =>
    /\ quick_pass = ~released.flag
    /\ display_mode = IF quick_pass THEN "Albedo" ELSE "Default"
    /\ released.prev = "Grave" => quick_pass = released.flag0

\* the backtick released twice in a row
C17_TwoBackticks ==
  /\ released.key = "Grave"
  /\ released.prev = "Grave"
  /\ ~quick_pass
  /\ display_mode = "Default"

(***************************************************************************)
(* Materials.                                                              *)
(***************************************************************************)
\* the scenes' materials are built and used
SpecMaterial == InitQuery({<<>>}, {IdleQuery}) /\ [][NextMaterial]_vars

\* C14: for every value f passed to Metal::new(f, surface) the stored fuzz
\* satisfies 0 <= fuzz <= 1.
C14_FuzzInUnitInterval ==
  mat.metal # None =>
    LET fuzz == mat.metal[1].fuzz
    IN  /\ Lt(FromInt(0), fuzz) \/ fuzz = FromInt(0)
        /\ Lt(fuzz, FromInt(1)) \/ fuzz = FromInt(1)

\* what the named operation of a material a Mix is made of returns
PartOp(name, m) ==
  CASE name = "scatter" -> Scatter(m)
    [] name = "emit" -> Emit(m)
    [] name = "alpha_test" -> <<AlphaTest(m)>>
    [] name = "normal" -> MaterialNormal(m)

\* C15: Mix(r, L, R) delegates scatter, emit, normal and alpha_test to L
\* when the draw of that call is below r and to R otherwise, so what an
\* operation returns is what it returns on L or on R.
C15_MixDelegates ==
  mat.op.name \in {"scatter", "emit", "alpha_test", "normal"} =>
    mat.op.result = IF Lt(mat.op.draw, mat.mix[1].ratio)
                    THEN PartOp(mat.op.name, mat.mix[1].left)
                    ELSE PartOp(mat.op.name, mat.mix[1].right)

(***************************************************************************)
(* The OBJ loader.                                                         *)
(***************************************************************************)
\* a file is loaded
SpecObj == InitQuery({<<>>}, {IdleQuery}) /\ [][ObjLoaderLoad]_vars

\* the context after the first n lines: o/g, usemtl and mtllib lines with a
\* name set the group, the material and the library
RECURSIVE ContextAt(_, _)
ContextAt(lines, n) ==
  IF n = 0 THEN DefaultContext
  ELSE LET before == ContextAt(lines, n - 1)
           l == lines[n]
       IN  CASE l.kind = "g" /\ l.name # None ->
                  [before EXCEPT !.group_name = l.name]
             [] l.kind = "usemtl" /\ l.name # None ->
                  [before EXCEPT !.material_name = l.name]
             [] l.kind = "mtllib" ->
                  [before EXCEPT !.material_library = Some(l.file)]
             [] OTHER -> before

\* how many lines of a kind are among the first n
RECURSIVE CountKind(_, _, _)
CountKind(lines, kind, n) ==
  IF n = 0 THEN 0
  ELSE CountKind(lines, kind, n - 1) + (IF lines[n].kind = kind THEN 1 ELSE 0)

\* the n-th line is one the format allows: its numbers parse, and the
\* indices of a face name a vertex, a normal and, if given, a texture
\* coordinate of an earlier line, whatever the group
WellFormedLine(lines, n) ==
  LET l == lines[n]
  IN  CASE l.kind \in {"v", "vn", "vt"} -> l.parsed
        [] l.kind = "f" ->
             /\ l.corner.v <= CountKind(lines, "v", n)
             /\ l.corner.vn <= CountKind(lines, "vn", n)
             /\ l.corner.form = "v/vt/vn" =>
                  l.corner.vt <= CountKind(lines, "vt", n)
        [] OTHER -> TRUE

\* the lines the builder is to be called for: v, vn and vt lines, and f
\* lines while the builder includes the group
CalledFor(lines, n) ==
  \/ lines[n].kind \in {"v", "vn", "vt"}
  \/ lines[n].kind = "f" /\ IncludeGroup(ContextAt(lines, n - 1))

\* C18: load takes the lines in file order and keeps a context (group,
\* material, library) that o/g, usemtl and mtllib lines update; it calls
\* the builder for every v, vn, vt and f line with the context current at
\* that line, faces only while include_group is true; indices are global
\* across groups.
C18_BuilderCalledPerLine ==
  (\A n \in 1..Len(obj.lines) : WellFormedLine(obj.lines, n)) =>
    /\ obj.context = ContextAt(obj.lines, Len(obj.lines))
    /\ \A n \in 1..Len(obj.lines) :
         CalledFor(obj.lines, n) =>
           \E i \in 1..Len(obj.calls) :
             /\ obj.calls[i].line = n
             /\ obj.calls[i].context = ContextAt(obj.lines, n - 1)
    /\ \A i, j \in 1..Len(obj.calls) :
         i < j => obj.calls[i].line < obj.calls[j].line

(***************************************************************************)
(* The main pass.                                                          *)
(***************************************************************************)
\* C19: within a sample pass a main-pass worker writes only its own scratch
\* buffer, which no other thread writes; the shared accumulator is modified
\* only inside Image::merge and Image::clear, by the thread that holds the
\* pixels mutex, and a worker's pixel loop leaves it unchanged.
C19_AccumulatorOnlyUnderLock ==
  [][/\ pixels' # pixels =>
          \/ \E w \in Workers :
               /\ pixels_lock = WorkerId(w)
               /\ wk[w].pc \in {"merge_px", "merge_finish"}
               /\ wk'[w].pc # wk[w].pc \/ wk'[w].idx # wk[w].idx
          \/ /\ pixels_lock = RenderId
             /\ rpc \in {"clear_px", "clear_finish"}
             /\ rpc' # rpc \/ ri' # ri
     /\ \A w \in Workers :
          /\ wk'[w].buffer # wk[w].buffer =>
               \/ wk[w].pc = "pixel" /\ wk'[w].pc = "merge_lock"
               \/ /\ rpc \in {"generate", "main_spawn"}
                  /\ wk[w].pc \in {"unspawned", "done"}
          /\ wk[w].pc = "pixel" /\ wk'[w].pc # "pixel" => pixels' = pixels
    ]_vars

\* a worker in its pixel loop while another merges and the accumulator
\* already holds a pass
C19_TracingWhileOtherMerges ==
  \E w, v \in Workers :
    /\ w # v
    /\ wk[w].pc = "pixel"
    /\ wk[v].pc = "merge_px"
    /\ pixels_lock = WorkerId(v)
    /\ pixels.count > 0

(***************************************************************************)
(* The pre-render pass.                                                    *)
(***************************************************************************)
\* how often x occurs in a sequence
RECURSIVE Occurrences(_, _)
Occurrences(items, x) ==
  IF items = <<>> THEN 0
  ELSE (IF Head(items) = x THEN 1 ELSE 0) + Occurrences(Tail(items), x)

RECURSIVE SumOver(_, _, _)
SumOver(field, x, w) ==
  IF w = 0 THEN 0
  ELSE SumOver(field, x, w - 1)
         + Occurrences(IF field = "claimed" THEN pre[w].claimed
                       ELSE pre[w].wrote, x)

\* by how many fetches row y was claimed, and how often a row was set
Claims(y) == SumOver("claimed", y, Cpus)
Writes(buf, y) == SumOver("wrote", <<buf, y>>, Cpus)

PreThreadsDone == rpc = "pre_join" /\ \A w \in Workers : pre[w].pc = "done"

\* C20: in the pre-render pass every row y in 0..H-1 is claimed through the
\* atomic counter by exactly one worker, its albedo row and its normal row
\* are each written exactly once, no row >= H is written, and every worker
\* terminates, so that the join completes.
C20_RowsClaimedOnce ==
  /\ [](/\ \A y \in Rows : Claims(y) <= 1 /\ Writes("albedo", y) <= 1
                                           /\ Writes("normal", y) <= 1
        /\ \A w \in Workers : \A i \in 1..Len(pre[w].wrote) :
             /\ pre[w].wrote[i][2] \in Rows
             /\ Occurrences(pre[w].claimed, pre[w].wrote[i][2]) = 1
        /\ PreThreadsDone =>
             \A y \in Rows : Claims(y) = 1 /\ Writes("albedo", y) = 1
                                           /\ Writes("normal", y) = 1)
  /\ (rpc = "pre_spawn" ~> rpc = "set_albedo")

\* the threads are done and each of them wrote a row
C20_EveryThreadWroteARow ==
  /\ PreThreadsDone
  /\ \A w \in Workers : Len(pre[w].wrote) >= 2

(***************************************************************************)
(* The order of one main-pass iteration, main.rs:248-284.                  *)
(***************************************************************************)
\* the worker has just finished its pixel loop
PassDone(w) == wk[w].pc = "pixel" /\ wk'[w].pc = "merge_lock"

\* the worker has just returned from Image::merge
MergeDone(w) == wk'[w].merges = wk[w].merges + 1

\* the worker has just sent an Update
UpdateSent(w) == wk'[w].updates = wk[w].updates + 1

\* C21: in every main-pass iteration a worker first stores a sample for
\* every pixel of its scratch buffer, then merges it into the shared
\* accumulator, which raises sample_count by exactly 1, and only then sends
\* one Update: one Update per merge, never before the merge has completed.
C21_PassMergeThenUpdate ==
  /\ [](\A w \in Workers :
          /\ wk[w].updates <= wk[w].merges
          /\ wk[w].merges <= wk[w].updates + 1
          /\ wk[w].merges = wk[w].updates + 1 <=> wk[w].pc = "notify"
          /\ wk[w].pc \in {"merge_lock", "merge_px", "merge_finish"} =>
               wk[w].buffer \in [PixelIds -> TraceSamples(scene)])
  /\ [][\A w \in Workers :
          /\ PassDone(w) =>
               /\ wk'[w].buffer \in [PixelIds -> TraceSamples(scene)]
               /\ wk'[w].merges = wk[w].updates
          /\ MergeDone(w) =>
               /\ wk[w].pc = "merge_finish" /\ wk'[w].pc = "notify"
               /\ pixels_lock = WorkerId(w)
               /\ pixels'.count = pixels.count + 1
               /\ events' = events
          /\ UpdateSent(w) =>
               /\ wk[w].pc = "notify" /\ wk'[w].pc = "poll"
               /\ wk[w].merges = wk[w].updates + 1
               /\ events' = SendUpdate(events)
               /\ pixels' = pixels]_vars

\* a worker is in its second iteration, with the second merge done and the
\* second Update not sent yet
C21_SecondMergeBeforeUpdate ==
  \E w \in Workers :
    wk[w].merges = 2 /\ wk[w].updates = 1 /\ wk[w].pc = "notify"

(***************************************************************************)
(* The boxes of a built hierarchy.                                         *)
(***************************************************************************)
\* the children a node has
Children(node) ==
  (IF node.left = None THEN {} ELSE {node.left[1]}) \cup
  (IF node.right = None THEN {} ELSE {node.right[1]})

\* the nodes of the tree BvhNode::new returned, and the items under a node
RECURSIVE Nodes(_)
Nodes(o) ==
  IF o.kind # "BvhNode" THEN {}
  ELSE {o} \cup UNION {Nodes(c) : c \in Children(o)}

RECURSIVE Primitives(_)
Primitives(o) ==
  IF o.kind # "BvhNode" THEN {o}
  ELSE UNION {Primitives(c) : c \in Children(o)}

\* a <= b on f32 values that are not NaN
Le(a, b) == ~IsNaN(a) /\ ~IsNaN(b) /\ ~Lt(b, a)

\* box `outer` is exactly the smallest box around the boxes in `inner`
IsUnionOf(outer, inner) ==
  \A i \in 1..3 :
    /\ \A b \in inner : Le(outer.minimum[i], b.minimum[i])
                        /\ Le(b.maximum[i], outer.maximum[i])
    /\ \E b \in inner : outer.minimum[i] = b.minimum[i]
    /\ \E b \in inner : outer.maximum[i] = b.maximum[i]

Encloses(outer, b) ==
  \A i \in 1..3 : Le(outer.minimum[i], b.minimum[i])
                  /\ Le(b.maximum[i], outer.maximum[i])

BuiltTree == answer.built /\ IsObject(world) /\ Len(objects) > 0

\* C22: after BvhNode::new on a non-empty item list, the bounding box of
\* every node is the union (join) of the bounding boxes of its children, and
\* so it encloses the bounding box of every primitive in its subtree.
C22_NodeBoxIsUnionOfChildren ==
  BuiltTree =>
    \A n \in Nodes(world.objects[1]) :
      /\ Children(n) # {}
      /\ IsUnionOf(n.bounding_box, {BoundingBoxOf(c)[1] : c \in Children(n)})
      /\ \A p \in Primitives(n) : Encloses(n.bounding_box, BoundingBoxOf(p)[1])

\* a tree of three different items was built: a root over a leaf node and a
\* node of two
C22_TwoLevelTree ==
  /\ BuiltTree
  /\ Len(objects) = 3
  /\ Primitives(world.objects[1]) = BvhPrims
  /\ \E n \in Nodes(world.objects[1]) : n.right = None

\* C23: BvhNode::new, and with it World::build_bvh, terminates for every
\* finite list of items that all have bounding boxes, of any length
\* including 0, and produces a finite tree (over exactly the items given).
C23_BuildTerminatesWithTree ==
  answer.built =>
    /\ world.kind = "World"
    /\ Len(world.objects) = 1
    /\ world.objects[1].kind = "BvhNode"
    /\ Primitives(world.objects[1]) = {objects[i] : i \in 1..Len(objects)}

(***************************************************************************)
(* The three mutexes of Image: who holds them and who waits for them.      *)
(***************************************************************************)
Threads ==
  {RenderId} \cup {WorkerId(w) : w \in Workers} \cup {ConvId(c) : c \in ConvThreads}

\* the order the claim gives the mutexes
LockRank(name) ==
  CASE name = "pixels" -> 1 [] name = "albedo" -> 2 [] name = "normal" -> 3

Held(t) ==
  (IF pixels_lock = t THEN {"pixels"} ELSE {}) \cup
  (IF albedo_lock = t THEN {"albedo"} ELSE {}) \cup
  (IF normal_lock = t THEN {"normal"} ELSE {})

\* the mutexes a thread is about to lock, by the place its code is at
Awaited(t) ==
  IF t = RenderId THEN
    CASE rpc = "clear_lock" -> {"pixels"}
      [] rpc = "set_albedo" -> {"albedo"}
      [] rpc = "set_normal" -> {"normal"}
      [] OTHER -> {}
  ELSE IF t[1] = WorkerId(1)[1] THEN
    IF wk[t[2]].pc = "merge_lock" THEN {"pixels"} ELSE {}
  ELSE
    LET d == conv[t[2]]
    IN  CASE d.pc = "lock" -> {"pixels"}
          [] d.pc = "locked" /\ d.mode = "Albedo" -> {"albedo"}
          [] d.pc = "locked" /\ d.mode = "Normal" -> {"normal"}
          [] d.pc = "locked" /\ d.mode = "Denoise" /\ pixels.count # 0 -> {"albedo"}
          [] d.pc = "denoise_albedo" -> {"normal"}
          [] OTHER -> {}

\* the places where a thread is inside a function that took a guard
InsideGuard(t) ==
  IF t = RenderId THEN rpc \in {"clear_px", "clear_finish"}
  ELSE IF t[1] = WorkerId(1)[1] THEN wk[t[2]].pc \in {"merge_px", "merge_finish"}
  ELSE conv[t[2]].pc \in {"locked", "denoise_albedo", "aux_locked"}

\* thread t has just locked the mutex
Acquires(t, name, lock) == lock' = t /\ lock # t

Holder(name) ==
  CASE name = "pixels" -> pixels_lock
    [] name = "albedo" -> albedo_lock
    [] name = "normal" -> normal_lock

\* the thread is not held up, or whoever holds what it waits for is not,
\* along at most n holders
RECURSIVE Proceeds(_, _)
Proceeds(t, n) ==
  \A a \in Awaited(t) :
    \/ Holder(a) = NoOne
    \/ n > 0 /\ Holder(a) # t /\ Proceeds(Holder(a), n - 1)

\* the step the code of thread t takes next is possible
CanStep(t) ==
  IF t = RenderId THEN ENABLED RenderUntouched
  ELSE IF t[1] = WorkerId(1)[1] THEN ENABLED MainThread(t[2])
  ELSE ENABLED ConvDenoise(t[2])

\* C24: no interleaving of the render thread, its workers and the display
\* threads deadlocks: the mutexes are always acquired in the order pixels,
\* albedo, normal; no thread waits on a lock while holding one later in that
\* order; and every acquired lock is released: a thread holds a mutex only
\* inside the function that locked it, a holder that waits for nothing can
\* take its next step, and whoever waits, waits for a thread that can.
C24_LocksOrderedAndReleased ==
  /\ [](\A t \in Threads :
          /\ \A a \in Awaited(t) : \A h \in Held(t) : LockRank(h) < LockRank(a)
          /\ Held(t) # {} => InsideGuard(t) /\ (Proceeds(t, 0) => CanStep(t))
          /\ Proceeds(t, 3))
  /\ [][\A t \in Threads :
          /\ Acquires(t, "pixels", pixels_lock) => Held(t) = {}
          /\ Acquires(t, "albedo", albedo_lock) => "normal" \notin Held(t)
          /\ Acquires(t, "normal", normal_lock) => Held(t) \subseteq {"pixels", "albedo"}]_vars

\* a display thread holds all three mutexes while a worker waits to merge
\* and the render thread has not come to set_normal yet
C24_AllThreeHeldWhileOthersWait ==
  \E c \in ConvThreads :
    /\ Held(ConvId(c)) = {"pixels", "albedo", "normal"}
    /\ \E w \in Workers : wk[w].pc = "merge_lock"

\* the same with the scheduler's fairness: the render thread, every worker,
\* the event loop and every display thread go on whenever they can
FairRace ==
  /\ SpecRace
  /\ WF_vars(RenderUntouched)
  /\ \A w \in Workers : WF_vars(PreThread(w) \/ MainThread(w))
  /\ WF_vars(HandleUpdate \/ HandleRedraw \/ HandleComplete)
  /\ \A c \in RacingThreads : WF_vars(ConvDefault(c))

(***************************************************************************)
(* PIXEL_UPDATE_FLAG and the display threads, main.rs:360-377.             *)
(***************************************************************************)
\* the thread is between its successful compare_exchange and its store
Converting(c) == conv[c].pc \in {"lock", "locked", "aux_locked", "send", "reset"}

\* the thread is inside to_rgb_bytes
InToRgb(c) == conv[c].pc \in {"lock", "locked", "aux_locked"}

\* C25: at most one snapshot-to-RGB conversion runs at any time: a display
\* thread performs to_rgb_bytes only after winning the compare-exchange on
\* PIXEL_UPDATE_FLAG (false to true), a thread that loses it does no
\* conversion and sends no Redraw, and the flag is reset to false after
\* every conversion.
C25_OneConversionAtATime ==
  /\ [](/\ \A c, d \in ConvThreads : Converting(c) /\ Converting(d) => c = d
        /\ pixel_update_flag <=> \E c \in ConvThreads : Converting(c))
  /\ [][\A c \in ConvThreads :
          /\ InToRgb(c)' /\ ~InToRgb(c) =>
               conv[c].pc = "cas" /\ ~pixel_update_flag /\ pixel_update_flag'
          /\ conv[c].pc = "cas" /\ pixel_update_flag /\ conv'[c] # conv[c] =>
               /\ conv'[c] = IdleConv
               /\ events' = events
               /\ imageVars' = imageVars
               /\ pixel_update_flag'
          /\ Len(events'.redraw) > Len(events.redraw) =>
               \E d \in ConvThreads : conv[d].pc = "send" /\ conv'[d].pc = "reset"
          /\ Converting(c) /\ ~Converting(c)' =>
               conv[c].pc = "reset" /\ ~pixel_update_flag']_vars

\* a second display thread is at its compare_exchange while the first is
\* inside to_rgb_bytes with the pixels locked
C25_SecondThreadMeetsConversion ==
  \E c, d \in ConvThreads :
    /\ conv[c].pc = "locked"
    /\ conv[d].pc = "cas"
    /\ pixels.count > 0

\* the most samples one render call merges
MaxMerged == Cpus * MaxLimit

\* a worker has sent its Update while the accumulator holds n samples
UpdateSentAt(n) == pixels.count = n /\ \E w \in Workers : wk[w].pc = "poll"

\* the frame on display was converted from at least n samples
Displayed(n) == texture # NoFrame /\ texture.count >= n

SourceAbsent(mode, count, alb, nrm) ==
  CASE mode = "Albedo" -> ~alb.some
    [] mode = "Normal" -> ~nrm.some
    [] OTHER -> count = 0

AllZero(bytes) == \A i \in 1..Len(bytes) : bytes[i] = 0

\* what to_rgb_bytes(mode) returns on the Image as it is
BytesNow(mode) == ToRgbBytes(mode, pixels.count, pixels.px, albedo, normal)

RgbSized(mode) ==
  LET bytes == BytesNow(mode)
  IN  /\ Len(bytes) = 3 * Width * Height
      /\ \A i \in 1..Len(bytes) : bytes[i] \in 0..255
      /\ SourceAbsent(mode, pixels.count, albedo, normal) => AllZero(bytes)

\* a display thread has returned from to_rgb_bytes
Returned(c) == conv[c].pc = "send"

\* what the display threads have returned is sized and zeroed in the same way
SnapshotsSized ==
  \A c \in ConvThreads :
    Returned(c) =>
      /\ Len(conv[c].snap.bytes) = 3 * Width * Height
      /\ conv[c].snap.count = 0 => AllZero(conv[c].snap.bytes)

\* C27 as stated: in every display mode and every reachable Image state,
\* to_rgb_bytes returns exactly 3*width*height bytes, all zero when the
\* mode's source data is absent, with no division by zero.
C27_BytesWithoutDivisionByZero ==
  /\ SnapshotsSized
  /\ \A m \in 1..5 : RgbSized(ModeOrder[m])
  /\ \A c \in ConvThreads : Returned(c) => IsFinite(Scale(conv[c].snap.count))

\* C27 amended: the same bytes; the quotient 1.0 / sample_count that every
\* call computes is infinite exactly when sample_count is 0, and then no
\* byte is computed from it: Default, Denoise and Depth return zeros, Albedo
\* and Normal return what they return for any other count.
C27_BytesNeverFromInfiniteScale ==
  /\ SnapshotsSized
  /\ \A m \in 1..5 : RgbSized(ModeOrder[m])
  /\ \A c \in ConvThreads :
       Returned(c) =>
         (~IsFinite(Scale(conv[c].snap.count)) <=> conv[c].snap.count = 0)
  /\ pixels.count = 0 =>
       \A m \in 4..5 :
         BytesNow(ModeOrder[m]) =
           ToRgbBytes(ModeOrder[m], MaxMerged, pixels.px, albedo, normal)

\* a display thread has converted the accumulator just after it was
\* cleared, with the albedo and the normal buffer in place
C27_ConvertedFromEmptyAccumulator ==
  \E c \in ConvThreads :
    /\ conv[c].pc = "send"
    /\ conv[c].snap.count = 0
    /\ albedo.some /\ normal.some

\* C28: after every pre-render thread has been joined, the render thread
\* holds the only remaining reference to the albedo buffer and to the normal
\* buffer, so extracting them (Arc::try_unwrap followed by
\* Mutex::into_inner) always succeeds, for any number of workers.
C28_LastReferenceAfterJoin ==
  /\ [](rpc \in {"set_albedo", "set_normal"} =>
          /\ StrongCount = 1
          /\ \A w \in Workers : pre[w].pc = "done")
  /\ [][rpc = "set_albedo" /\ rpc' # rpc =>
          /\ rpc' = "set_normal"
          /\ albedo' = SomeBuffer(albedo_buf)]_vars
  /\ [][rpc = "set_normal" /\ rpc' # rpc =>
          /\ rpc' = "check_quick"
          /\ normal' = SomeBuffer(normal_buf)]_vars

\* the buffers of the second frame have been extracted after both threads
\* had their clones and wrote rows through them
C28_ExtractedSecondFrame ==
  /\ frame = 1
  /\ rpc = "check_quick"
  /\ albedo = SomeBuffer(albedo_buf)
  /\ normal = SomeBuffer(normal_buf)
  /\ albedo_buf # ZeroFloatBuffer

(***************************************************************************)
(* Surfaces and the cube map.                                              *)
(***************************************************************************)
\* textures are loaded, wrapped and measured; the cube map is sampled
SpecSurface == InitQuery({<<>>}, {IdleQuery}) /\ [][NextSurface]_vars

\* the rotated direction of the last background call, and whether its
\* component k is the strictly largest in magnitude
Rotated == Rotate(tex.cube[1].transform, tex.op.arg[1])
Dominant(k) == \A j \in (1..3) \ {k} : Abs(Rotated[k]) > Abs(Rotated[j])
Sampled(face) == tex.op.result.color = SolidColorGetF(face, tex.op.result.uv)

\* C29: CubeMap::background selects exactly one face for every non-zero ray
\* direction, the one matching the dominant axis and sign of the (rotated)
\* direction: +X samples x_pos, -X samples x_neg, +Y samples y_pos, -Y
\* samples y_neg, +Z samples z_pos and -Z samples z_neg.
C29_FaceOfDominantAxis ==
  tex.op.name = "background" /\ tex.op.arg[1] # V3Zero =>
    /\ tex.op.result.index \in 0..5
    /\ Dominant(1) /\ Rotated[1] > 0 => Sampled(tex.cube[1].x_pos)
    /\ Dominant(1) /\ Rotated[1] < 0 => Sampled(tex.cube[1].x_neg)
    /\ Dominant(2) /\ Rotated[2] > 0 => Sampled(tex.cube[1].y_pos)
    /\ Dominant(2) /\ Rotated[2] < 0 => Sampled(tex.cube[1].y_neg)
    /\ Dominant(3) /\ Rotated[3] > 0 => Sampled(tex.cube[1].z_pos)
    /\ Dominant(3) /\ Rotated[3] < 0 => Sampled(tex.cube[1].z_neg)

\* the surface measured is a wrapper, and the surface it wraps
IsWrapper == tex.surface # None /\ tex.surface[1].kind \in Wrappers
Wrapped == tex.surface[1].surface

\* C30: every surface that wraps another surface (Arc<S>, Box<S>,
\* SolidColorFallback) reports the same width() and the same height() as the
\* surface it wraps.
C30_WrapperKeepsSize ==
  tex.op.name = "size" /\ IsWrapper =>
    tex.op.result = <<SurfaceWidth(Wrapped), SurfaceHeight(Wrapped)>>

\* one call of Camera::trace from the pixel loop, which the scheduler runs
FairTrace ==
  /\ InitQuery({<<>>}, {IdleQuery})
  /\ [][CameraTrace]_vars
  /\ WF_vars(CameraTrace)

Spec == SpecRender
====
